---- MODULE Spec2Model ----
(***************************************************************************)
(* Verification model of the GTA warehouse demo: the synthetic tax data    *)
(* generator, the warehouse load / scoring steps, the model-artifact       *)
(* files, the database connection handling and the task graphs.            *)
(*                                                                         *)
(* Conventions.  Dates are day numbers.  Money is an integer number of     *)
(* mills (0.001 GMD); round(x, 2) is Round2.  Scores and probabilities     *)
(* are per-mille integers (0.95 is 950).  A Python None / SQL NULL in a    *)
(* nullable column is the empty sequence << >> and a present value v is    *)
(* << v >>.  A taxpayer_id "TP000007" is the number 7, so taxpayer_id[2:] *)
(* is that same number.                                                    *)
(***************************************************************************)
EXTENDS Integers, Sequences, FiniteSets, TLC

VARIABLES
    \* ---- GambianTaxDataGenerator (scripts/generate_synthetic_data.py)
    now,              \* datetime.now() during the run
    start_date,       \* self.start_date
    end_date,         \* self.end_date
    taxpayers,        \* self.taxpayers
    fraud_taxpayers,  \* self.fraud_taxpayers
    paye_returns,     \* paye_df
    vat_returns,      \* vat_df
    payments,         \* payments_df
    gpc,              \* position inside generate_all_data
    gidx,             \* loop index of the running generator method
    gdate,            \* current_date of the running return loop
    \* ---- ComprehensiveDataGenerator (scripts/generate_comprehensive_data.py)
    c_taxpayers,      \* taxpayers list / taxpayers_df of generate_all
    c_payments,       \* payments_df of generate_all
    c_fraud_alerts,   \* fraud_df of generate_all
    cpc,              \* position inside generate_all and load_to_database
    \* ---- the files and the relational store
    csv,              \* the CSV files under /opt/airflow/data
    db,               \* the committed tables of the store
    quality,          \* outcome of the last check_data_quality
    pc,               \* position of each operation that uses a connection
    conn,             \* the connection each such operation opened
    ltable,           \* index of the table load_data_to_postgres works on
    \* ---- the model artifacts and the ML DAG runs
    artifacts,        \* /opt/airflow/models/fraud_detection_*.pkl
    run,              \* the task instances of each ML DAG run
    fraud_scores,     \* /opt/airflow/data/fraud_scores.csv
    \* ---- the task graphs
    task_state,       \* state of each task instance of one pipeline run
    task_tries,       \* try_number of each task instance
    \* ---- the manual runner (scripts/run_pipeline.py)
    runner,           \* position, log and exit status of main()
    \* ---- the transaction of load_data_to_postgres
    pending,          \* what a failed try has written and not committed
    loads,            \* the run of gta_data_pipeline and the tries of its load task
    forecast,         \* update_forecast_tables and analytics.revenue_forecasts
    \* ---- the fraud alerts
    fraud_alerts,     \* the fraud_alerts list of generate_all_data
    alert_history,    \* per row of analytics.fraud_alerts, the statuses it has had
    \* ---- the dashboard (streamlit/app_fixed.py)
    dashboard         \* what one run of the script has displayed so far

genVars == << now, start_date, end_date, taxpayers, fraud_taxpayers,
              paye_returns, vat_returns, payments, gpc, gidx, gdate >>
compVars == << c_taxpayers, c_payments, c_fraud_alerts, cpc >>
storeVars == << csv, db, quality, pc, conn, ltable >>
mlVars == << artifacts, run, fraud_scores >>
dagVars == << task_state, task_tries >>
runnerVars == << runner >>
txnVars == << pending, loads, forecast >>
alertVars == << fraud_alerts, alert_history >>

\* the state of the programs beside the generators, the store, the ML DAG
\* and the task graphs
dashVars == << dashboard >>
extVars == << runnerVars, txnVars, alertVars, dashVars >>

\* everything that is not state of the GambianTaxDataGenerator instance
nonGenVars == << compVars, storeVars, mlVars, dagVars, extVars >>

vars == << genVars, compVars, storeVars, mlVars, dagVars, extVars >>

----------------------------------------------------------------------------
(* Bounds of the model *)

\* self.num_taxpayers of the generator instance under check
NumTaxpayers == 2
\* length of a calendar month in days, pd.DateOffset(months=1)
MonthDays == 30

----------------------------------------------------------------------------
(* Program constants *)

PayeDueDays == 15
VatDueDays == 15
SocialSecurityPct == 5
VatRatePct == 15
VatThreshold == 1000000

----------------------------------------------------------------------------
(* Arithmetic helpers *)

\* x * p / 100 on mills, without overflowing 32 bits
Pct(x, p) == (x \div 100) * p + ((x % 100) * p) \div 100

\* round(x, 2): mills to whole cents, ties to the even cent
Round2(x) ==
    LET q == x \div 10
        r == x % 10
    IN  IF r > 5 \/ (r = 5 /\ q % 2 = 1) THEN (q + 1) * 10 ELSE q * 10

Max(a, b) == IF a >= b THEN a ELSE b
Min(a, b) == IF a <= b THEN a ELSE b

\* current_date.year and current_date.month of a day number
PeriodYear(d) == (d \div MonthDays) \div 12
PeriodMonth(d) == ((d \div MonthDays) % 12) + 1

----------------------------------------------------------------------------
(* GambianTaxDataGenerator: the values the random draws range over *)

TaxpayerTypes == {"Individual", "Corporate", "Partnership", "NGO"}
RiskCategories == {"Low", "Medium", "High"}

\* generate_tin: randint(100, 999) - randint(100000, 999999) - randint(1, 9)
TinDraws == {<<100, 100000, 1>>, <<999, 999999, 9>>}
\* random.randint(100000, 50000000), GMD
TurnoverDraws == {1000000, 2000000}
\* random.randint(1, 500)
EmployeeDraws == {10}
\* random.uniform(0.2, 0.5) for a fraud case, random.uniform(0.6, 0.95) else
FraudComplianceDraws == {200, 500}
HonestComplianceDraws == {600, 950}

\* one iteration's draws of generate_taxpayers
TaxpayerDraws ==
    {d \in [taxpayer_type : TaxpayerTypes, is_fraud : BOOLEAN, tin : TinDraws,
            employee_count : EmployeeDraws, annual_turnover : TurnoverDraws,
            risk_category : RiskCategories,
            compliance_score : FraudComplianceDraws \cup HonestComplianceDraws] :
        /\ d.is_fraud => d.risk_category = "High"
        /\ d.compliance_score \in
               (IF d.is_fraud THEN FraudComplianceDraws ELSE HonestComplianceDraws)}

\* avg_salary * seasonal_factor per employee, mills
SalaryDraws == {5000555}
\* random.uniform(0.1, 0.25), percent
PayeRateDraws == {10}
\* random.uniform(0.5, 0.8), percent
FraudFactorDraws == {50}
\* random.randint(-5, 10), days before the due date
PayeOffsetDraws == {-5, 0}
\* random.randint(-5, 15), days before the due date
VatOffsetDraws == {-5, 15}
\* random.uniform(0.8, 1.2), times 1.3 for Retail in quarter 4, percent
SalesPctDraws == {100}
\* random.uniform(0.4, 0.7), percent
PurchasePctDraws == {40}
\* random.uniform(0.6, 0.9), percent
InputVatPctDraws == {90}
\* random.uniform(0.5, 0.7), percent
OutputFraudDraws == {70}
\* random.uniform(1.2, 1.5), percent
InputFraudDraws == {120, 150}
\* random.randint(1000, 9999) in the payment_id
PaymentIdDraws == {1000}

----------------------------------------------------------------------------
(* GambianTaxDataGenerator.generate_taxpayers *)

IsCorporate(t) == t.taxpayer_type \in {"Corporate", "Partnership"}

\* the dict built by iteration i with draws d
Taxpayer(i, d) ==
    LET is_corporate == d.taxpayer_type # "Individual"
    IN  [taxpayer_id      |-> i + 1,
         tin              |-> d.tin,
         taxpayer_type    |-> d.taxpayer_type,
         employee_count   |-> IF is_corporate THEN <<d.employee_count>> ELSE << >>,
         annual_turnover  |-> IF is_corporate THEN <<d.annual_turnover>> ELSE << >>,
         risk_category    |-> IF d.is_fraud THEN "High" ELSE d.risk_category,
         compliance_score |-> d.compliance_score]

\* one iteration of the loop; the last one hands over to generate_paye_returns
generate_taxpayers(D) ==
    /\ gpc = "taxpayers"
    /\ cpc = "idle"
    /\ gidx < NumTaxpayers
    /\ \E d \in D.taxpayer :
          LET t == Taxpayer(gidx, d)
          IN  /\ taxpayers' = Append(taxpayers, t)
              /\ fraud_taxpayers' = IF d.is_fraud
                                    THEN fraud_taxpayers \cup {t.taxpayer_id}
                                    ELSE fraud_taxpayers
    /\ IF gidx + 1 < NumTaxpayers
       THEN /\ gidx' = gidx + 1
            /\ UNCHANGED << gpc, gdate >>
       ELSE /\ gpc' = "paye"
            /\ gidx' = 1
            /\ gdate' = start_date
    /\ UNCHANGED nonGenVars
    /\ UNCHANGED << now, start_date, end_date, paye_returns, vat_returns, payments >>

----------------------------------------------------------------------------
(* GambianTaxDataGenerator.generate_paye_returns *)

corporate_taxpayers == SelectSeq(taxpayers, IsCorporate)

\* the dict built for taxpayer t and period current_date; `draw` is history
\* only (the values before the fraud pattern and the factor), never persisted
PayeReturn(t, current_date, salary, rate, fraud_factor, offset) ==
    LET employee_count == t.employee_count[1]
        is_fraud  == t.taxpayer_id \in fraud_taxpayers
        gross0    == employee_count * salary
        paye0     == Pct(gross0, rate)
        social_security == Pct(gross0, SocialSecurityPct)
        paye_tax  == IF is_fraud THEN Pct(paye0, fraud_factor) ELSE paye0
        gross_salaries == IF is_fraud THEN Pct(gross0, fraud_factor) ELSE gross0
        due_date  == current_date + PayeDueDays
        filing_date == due_date - offset
    IN  [return_id        |-> <<"PAYE", PeriodYear(current_date),
                                PeriodMonth(current_date), t.taxpayer_id>>,
         taxpayer_id      |-> t.taxpayer_id,
         period_year      |-> PeriodYear(current_date),
         period_month     |-> PeriodMonth(current_date),
         filing_date      |-> IF filing_date <= now THEN <<filing_date>> ELSE << >>,
         due_date         |-> due_date,
         employee_count   |-> employee_count,
         gross_salaries   |-> Round2(gross_salaries),
         paye_tax         |-> Round2(paye_tax),
         social_security  |-> Round2(social_security),
         total_deductions |-> Round2(paye_tax + social_security),
         net_payment      |-> Round2(paye_tax),
         status           |-> IF filing_date <= due_date THEN "Filed" ELSE "Overdue",
         draw             |-> [gross |-> gross0, paye_tax |-> paye0,
                               social_security |-> social_security,
                               factor |-> IF is_fraud THEN fraud_factor ELSE 100]]

\* one iteration of the while loop of one corporate taxpayer
generate_paye_returns(D) ==
    /\ gpc = "paye"
    /\ gidx <= Len(corporate_taxpayers)
    /\ LET t == corporate_taxpayers[gidx]
           is_fraud == t.taxpayer_id \in fraud_taxpayers
       IN  \E skip \in (IF is_fraud THEN D.skip ELSE {FALSE}) :
           \E salary \in SalaryDraws, rate \in PayeRateDraws :
           \E fraud_factor \in D.fraud_factor, offset \in D.paye_offset :
              paye_returns' =
                  IF skip THEN paye_returns
                  ELSE Append(paye_returns,
                              PayeReturn(t, gdate, salary, rate, fraud_factor, offset))
    /\ IF gdate + MonthDays <= end_date
       THEN /\ gdate' = gdate + MonthDays
            /\ gidx' = gidx
       ELSE /\ gdate' = start_date
            /\ gidx' = gidx + 1
    /\ UNCHANGED nonGenVars
    /\ UNCHANGED << now, start_date, end_date, taxpayers, fraud_taxpayers,
                    vat_returns, payments, gpc >>

\* the for loop is exhausted: return pd.DataFrame(paye_returns)
generate_paye_returns_end ==
    /\ gpc = "paye"
    /\ gidx > Len(corporate_taxpayers)
    /\ gpc' = "vat_select"
    /\ UNCHANGED nonGenVars
    /\ UNCHANGED << now, start_date, end_date, taxpayers, fraud_taxpayers,
                    paye_returns, vat_returns, payments, gidx, gdate >>

----------------------------------------------------------------------------
(* GambianTaxDataGenerator.generate_vat_returns *)

\* t.get('annual_turnover', 0) > 1000000, on a taxpayer that has a turnover
IsVatRegistered(t) == t.annual_turnover[1] > VatThreshold

vat_taxpayers == SelectSeq(taxpayers, IsVatRegistered)

\* the list comprehension that selects the VAT taxpayers; the key is present
\* with value None for an Individual, and None > 1000000 raises TypeError
generate_vat_select ==
    /\ gpc = "vat_select"
    /\ IF \E i \in 1..Len(taxpayers) : taxpayers[i].annual_turnover = << >>
       THEN /\ gpc' = "failed"
            /\ UNCHANGED << gidx, gdate >>
       ELSE /\ gpc' = "vat"
            /\ gidx' = 1
            /\ gdate' = start_date
    /\ UNCHANGED nonGenVars
    /\ UNCHANGED << now, start_date, end_date, taxpayers, fraud_taxpayers,
                    paye_returns, vat_returns, payments >>

Quarter(current_date) == (PeriodMonth(current_date) - 1) \div 3 + 1

VatReturn(t, current_date, sales_pct, purchase_pct, input_pct, output_fraud, input_fraud, offset) ==
    LET is_fraud  == t.taxpayer_id \in fraud_taxpayers
        quarterly_sales == Pct((t.annual_turnover[1] * 1000) \div 4, sales_pct)
        taxable_sales == Pct(quarterly_sales, 70)
        exempt_sales  == Pct(quarterly_sales, 20)
        export_sales  == Pct(quarterly_sales, 10)
        output0   == Pct(taxable_sales, VatRatePct)
        purchases == Pct(quarterly_sales, purchase_pct)
        input0    == Pct(Pct(purchases, VatRatePct), input_pct)
        output_vat == IF is_fraud THEN Pct(output0, output_fraud) ELSE output0
        input_vat  == IF is_fraud THEN Pct(input0, input_fraud) ELSE input0
        net_vat   == output_vat - input_vat
        due_date  == current_date + 3 * MonthDays + VatDueDays
        filing_date == due_date - offset
    IN  [return_id       |-> <<"VAT", PeriodYear(current_date),
                               Quarter(current_date), t.taxpayer_id>>,
         taxpayer_id     |-> t.taxpayer_id,
         period_year     |-> PeriodYear(current_date),
         period_quarter  |-> Quarter(current_date),
         filing_date     |-> IF filing_date <= now THEN <<filing_date>> ELSE << >>,
         due_date        |-> due_date,
         total_sales     |-> Round2(quarterly_sales),
         taxable_sales   |-> Round2(taxable_sales),
         exempt_sales    |-> Round2(exempt_sales),
         export_sales    |-> Round2(export_sales),
         output_vat      |-> Round2(output_vat),
         total_purchases |-> Round2(purchases),
         input_vat       |-> Round2(input_vat),
         net_vat_payable |-> Round2(net_vat),
         status          |-> IF filing_date <= due_date THEN "Filed" ELSE "Overdue",
         draw            |-> [output_vat |-> output0, input_vat |-> input0,
                              output_factor |-> IF is_fraud THEN output_fraud ELSE 100,
                              input_factor |-> IF is_fraud THEN input_fraud ELSE 100]]

\* one iteration of the while loop of one VAT taxpayer
generate_vat_returns(D) ==
    /\ gpc = "vat"
    /\ gidx <= Len(vat_taxpayers)
    /\ LET t == vat_taxpayers[gidx]
           is_fraud == t.taxpayer_id \in fraud_taxpayers
       IN  \E skip \in (IF is_fraud THEN D.skip ELSE {FALSE}) :
           \E sales_pct \in SalesPctDraws, purchase_pct \in PurchasePctDraws :
           \E input_pct \in InputVatPctDraws, offset \in D.vat_offset :
           \E output_fraud \in OutputFraudDraws, input_fraud \in D.input_fraud :
              vat_returns' =
                  IF skip THEN vat_returns
                  ELSE Append(vat_returns,
                              VatReturn(t, gdate, sales_pct, purchase_pct, input_pct,
                                        output_fraud, input_fraud, offset))
    /\ IF gdate + 3 * MonthDays <= end_date
       THEN /\ gdate' = gdate + 3 * MonthDays
            /\ gidx' = gidx
       ELSE /\ gdate' = start_date
            /\ gidx' = gidx + 1
    /\ UNCHANGED nonGenVars
    /\ UNCHANGED << now, start_date, end_date, taxpayers, fraud_taxpayers,
                    paye_returns, payments, gpc >>

\* the for loop is exhausted: return pd.DataFrame(vat_returns)
generate_vat_returns_end ==
    /\ gpc = "vat"
    /\ gidx > Len(vat_taxpayers)
    /\ gpc' = "pay_paye"
    /\ gidx' = 1
    /\ UNCHANGED nonGenVars
    /\ UNCHANGED << now, start_date, end_date, taxpayers, fraud_taxpayers,
                    paye_returns, vat_returns, payments, gdate >>

----------------------------------------------------------------------------
(* GambianTaxDataGenerator.generate_payments *)

\* random.randint(0, 30) for a fraud case, random.randint(-5, 5) else
PayeDelayDraws(is_fraud) == IF is_fraud THEN {30} ELSE {-5}
\* random.randint(0, 45) for a fraud case, random.randint(-5, 10) else
VatDelayDraws(is_fraud) == IF is_fraud THEN {45} ELSE {-5}

\* a payment that carries the total deductions of the return, not its tax
PayePayment_TotalDeductions(paye, delay_days, n) ==
    LET payment_date == paye.due_date + delay_days
    IN  [payment_id       |-> <<payment_date, n>>,
         taxpayer_id      |-> paye.taxpayer_id,
         payment_date     |-> payment_date,
         tax_type         |-> "PAYE",
         period_year      |-> paye.period_year,
         period_month     |-> paye.period_month,
         amount           |-> paye.total_deductions,
         reference_number |-> paye.return_id,
         status           |-> "Completed"]

PayePayment(paye, delay_days, n) ==
    LET payment_date == paye.due_date + delay_days
    IN  [payment_id       |-> <<payment_date, n>>,
         taxpayer_id      |-> paye.taxpayer_id,
         payment_date     |-> payment_date,
         tax_type         |-> "PAYE",
         period_year      |-> paye.period_year,
         period_month     |-> paye.period_month,
         amount           |-> paye.net_payment,
         reference_number |-> paye.return_id,
         status           |-> "Completed"]

VatPayment(vat, delay_days, n) ==
    LET payment_date == vat.due_date + delay_days
    IN  [payment_id       |-> <<payment_date, n>>,
         taxpayer_id      |-> vat.taxpayer_id,
         payment_date     |-> payment_date,
         tax_type         |-> "VAT",
         period_year      |-> vat.period_year,
         period_month     |-> vat.period_quarter * 3,
         amount           |-> vat.net_vat_payable,
         reference_number |-> vat.return_id,
         status           |-> "Completed"]

\* one row of paye_df.iterrows(); past the last row the VAT loop starts
generate_payments_paye(D) ==
    /\ gpc = "pay_paye"
    /\ IF gidx <= Len(paye_returns)
       THEN LET paye == paye_returns[gidx]
                is_fraud == paye.taxpayer_id \in fraud_taxpayers
            IN  /\ IF paye.status = "Filed" /\ paye.net_payment > 0
                   THEN \E pays \in D.pays :
                        \E delay_days \in PayeDelayDraws(is_fraud), n \in D.payment_id :
                           payments' = IF pays
                                       THEN Append(payments, PayePayment(paye, delay_days, n))
                                       ELSE payments
                   ELSE payments' = payments
                /\ gidx' = gidx + 1
                /\ gpc' = gpc
       ELSE /\ gpc' = "pay_vat"
            /\ gidx' = 1
            /\ payments' = payments
    /\ UNCHANGED nonGenVars
    /\ UNCHANGED << now, start_date, end_date, taxpayers, fraud_taxpayers,
                    paye_returns, vat_returns, gdate >>

\* every filed return is paid for
VatIsPayable_Filed(vat) == vat.status = "Filed"

\* vat['status'] == 'Filed' and vat['net_vat_payable'] > 0
VatIsPayable(vat) == vat.status = "Filed" /\ vat.net_vat_payable > 0

\* one row of vat_df.iterrows(); past the last row generate_payments returns
generate_payments_vat(D) ==
    /\ gpc = "pay_vat"
    /\ IF gidx <= Len(vat_returns)
       THEN LET vat == vat_returns[gidx]
                is_fraud == vat.taxpayer_id \in fraud_taxpayers
            IN  /\ IF VatIsPayable(vat)
                   THEN \E pays \in D.pays :
                        \E delay_days \in VatDelayDraws(is_fraud), n \in D.payment_id :
                           payments' = IF pays
                                       THEN Append(payments, VatPayment(vat, delay_days, n))
                                       ELSE payments
                   ELSE payments' = payments
                /\ gidx' = gidx + 1
                /\ gpc' = gpc
       ELSE /\ gpc' = "done"
            /\ gidx' = gidx
            /\ payments' = payments
    /\ UNCHANGED nonGenVars
    /\ UNCHANGED << now, start_date, end_date, taxpayers, fraud_taxpayers,
                    paye_returns, vat_returns, gdate >>

\* random.choice(['Open', 'Under Investigation', 'Closed'])
AlertStatusDraws == {"Open", "Under Investigation", "Closed"}

\* random.uniform(0.7, 0.95), per mille
AlertRiskDraws == {800}

\* the elements of a set of numbers in increasing order
RECURSIVE Sorted(_)
Sorted(S) ==
    IF S = {} THEN << >>
    ELSE LET least == CHOOSE x \in S : \A y \in S : x <= y
         IN  <<least>> \o Sorted(S \ {least})

\* generate_all_data, lines 434-455, after the generate_ methods: one alert
\* for each flagged taxpayer, and the data frames are returned
generate_all_data(D) ==
    /\ gpc = "done"
    /\ \E status \in [fraud_taxpayers -> D.alert_status], risk_score \in AlertRiskDraws :
          fraud_alerts' =
              [i \in DOMAIN Sorted(fraud_taxpayers) |->
                  [taxpayer_id |-> Sorted(fraud_taxpayers)[i],
                   alert_type  |-> "Multiple late payments",
                   risk_score  |-> risk_score,
                   status      |-> status[Sorted(fraud_taxpayers)[i]]]]
    /\ gpc' = "returned"
    /\ UNCHANGED << now, start_date, end_date, taxpayers, fraud_taxpayers,
                    paye_returns, vat_returns, payments, gidx, gdate >>
    /\ UNCHANGED << compVars, storeVars, mlVars, dagVars, dashVars, runnerVars, txnVars,
                    alert_history >>


\* calls of generate_all_data on one GambianTaxDataGenerator
MaxCalls == 2

\* generate_all_data is called once more on the generator whose call has
\* returned: generate_taxpayers starts its loop again on self.taxpayers and
\* self.fraud_taxpayers as the call before left them (only __init__, lines
\* 56-57, assigns them)
generate_all_data_call ==
    /\ gpc = "returned"
    /\ Len(taxpayers) < MaxCalls * NumTaxpayers
    /\ gpc' = "taxpayers"
    /\ gidx' = 0
    /\ gdate' = start_date
    /\ paye_returns' = << >>
    /\ vat_returns' = << >>
    /\ payments' = << >>
    /\ UNCHANGED << now, start_date, end_date, taxpayers, fraud_taxpayers >>
    /\ UNCHANGED nonGenVars

----------------------------------------------------------------------------
(* The generator run: GambianTaxDataGenerator(...).generate_all_data() *)

\* datetime.now() of the run, and the start_date / end_date arguments
NowDraws == {10, 400}
StartDateDraws == {0}
EndDateDraws == {0}

\* __init__
GenInit ==
    /\ now \in NowDraws
    /\ start_date \in StartDateDraws
    /\ end_date \in {e \in EndDateDraws : e >= start_date}
    /\ taxpayers = << >>
    /\ fraud_taxpayers = {}
    /\ paye_returns = << >>
    /\ vat_returns = << >>
    /\ payments = << >>
    /\ gpc = "taxpayers"
    /\ gidx = 0
    /\ gdate = start_date

\* the draws of the generator run under check: one TIN, one compliance value
\* per class; a Partnership takes the same branches as a Corporate and is
\* drawn honest and above the VAT threshold only
GenTaxpayerDraws ==
    {d \in TaxpayerDraws :
        /\ d.tin = <<100, 100000, 1>>
        /\ d.compliance_score \in {500, 600}
        /\ d.risk_category \in {"Low", "High"}
        /\ d.taxpayer_type = "Partnership" =>
               (~d.is_fraud /\ d.annual_turnover = 2000000)
        /\ (d.taxpayer_type = "Corporate" /\ d.is_fraud) => d.annual_turnover = 2000000}

GenDraws ==
    [taxpayer     |-> GenTaxpayerDraws,
     fraud_factor |-> FraudFactorDraws,
     paye_offset  |-> PayeOffsetDraws,
     vat_offset   |-> VatOffsetDraws,
     input_fraud  |-> InputFraudDraws,
     pays         |-> BOOLEAN,
     alert_status |-> {"Open"},
     skip         |-> BOOLEAN,
     payment_id   |-> PaymentIdDraws]

----------------------------------------------------------------------------
(* ComprehensiveDataGenerator.generate_taxpayers *)

\* compliance_rate and digital_payment of each business profile, per mille
BUSINESS_PROFILES ==
    [Telecommunications |-> [compliance_rate |-> 850, digital_payment |-> 900],
     Banking            |-> [compliance_rate |-> 950, digital_payment |-> 950],
     Retail             |-> [compliance_rate |-> 650, digital_payment |-> 400],
     Manufacturing      |-> [compliance_rate |-> 750, digital_payment |-> 600],
     Tourism            |-> [compliance_rate |-> 700, digital_payment |-> 700],
     Agriculture        |-> [compliance_rate |-> 550, digital_payment |-> 200]]

\* np.random.normal(profile['compliance_rate'], 0.15), per mille
NormalDraws == {-200, 700, 1500}
\* random.randint(0, 20)
YearsActiveDraws == {0, 5}
\* int(np.random.lognormal(np.log(20), 1.5))
ComprehensiveEmployeeDraws == {0, 20}

\* one iteration's draws of generate_taxpayers
ComprehensiveDraws ==
    [business_type : DOMAIN BUSINESS_PROFILES, years_active : YearsActiveDraws,
     inconsistent : BOOLEAN, normal : NormalDraws, tin : TinDraws,
     taxpayer_type : {"Corporate", "Partnership", "Individual"},
     employee_count : ComprehensiveEmployeeDraws, annual_turnover : TurnoverDraws]

\* min(0.95, sum(risk_factors)), per mille
RiskScore(d) ==
    LET profile == BUSINESS_PROFILES[d.business_type]
    IN  Min(950, (IF profile.compliance_rate < 600 THEN 200 ELSE 0)
                   + (IF d.years_active < 2 THEN 150 ELSE 0)
                   + (IF d.inconsistent THEN 300 ELSE 0)
                   + (IF profile.digital_payment < 300 THEN 100 ELSE 0))

categorize_risk(risk_score) ==
    IF risk_score > 700 THEN "High"
    ELSE IF risk_score > 400 THEN "Medium"
    ELSE "Low"

\* the dict built by iteration i with draws d
ComprehensiveTaxpayer(i, d) ==
    LET risk_score == RiskScore(d)
    IN  [taxpayer_id      |-> i + 1,
         tin              |-> d.tin,
         taxpayer_type    |-> d.taxpayer_type,
         business_sector  |-> d.business_type,
         employee_count   |-> <<d.employee_count>>,
         annual_turnover  |-> <<d.annual_turnover>>,
         risk_category    |-> categorize_risk(risk_score),
         compliance_score |-> Max(100, Min(950, d.normal - risk_score \div 2))]

\* one iteration of the loop of ComprehensiveDataGenerator.generate_taxpayers;
\* the script runs on a store the other generator has not been run for
Comprehensive_generate_taxpayers(D) ==
    /\ cpc \in {"idle", "taxpayers"}
    /\ gpc = "taxpayers" /\ gidx = 0
    /\ Len(c_taxpayers) < NumTaxpayers
    /\ \E d \in D :
          c_taxpayers' = Append(c_taxpayers, ComprehensiveTaxpayer(Len(c_taxpayers), d))
    /\ cpc' = IF Len(c_taxpayers) + 1 < NumTaxpayers THEN "taxpayers" ELSE "generated"
    /\ UNCHANGED << c_payments, c_fraud_alerts >>
    /\ UNCHANGED << genVars, storeVars, mlVars, dagVars, extVars >>

\* self.start_date and self.end_date of the generator: the HistoryDays days
\* before datetime.now()
HistoryDays == 90
c_start_date == now - HistoryDays
c_end_date == now

\* the outcomes of _get_payment_channel
PaymentChannels == {"Online", "Mobile Money", "Bank Transfer", "Cash", "Cheque"}

\* the draws of one iteration of the while loop of generate_payment_patterns:
\* random.randint(10000, 99999) in the payment_id
PatternIdDraws == {10000}

\* random.random() < payment_probability, random.uniform(3000, 8000),
\* random.uniform(0.8, 1.2) per mille, the two random.randint delays, the
\* two channels, random.randint(30, 120) and the numbers of the payment_id
\* of the PAYE and of the VAT payment
PaymentPatternDraws ==
    [pays : BOOLEAN, salary : {3000, 8000}, vat_factor : {800, 1200},
     paye_delay : {0, 15}, vat_delay : {0, 20},
     paye_channel : PaymentChannels, vat_channel : PaymentChannels,
     step : {30, 120}, n : PatternIdDraws, vat_n : PatternIdDraws]

\* payment_frequency of a taxpayer
payment_frequency(taxpayer) ==
    IF taxpayer.compliance_score > 800 THEN "monthly"
    ELSE IF taxpayer.compliance_score > 500 THEN "quarterly"
    ELSE "sporadic"

\* paye_amount, in mills: employee_count * uniform * 0.15, and 1.3 times
\* that in the bonus season
paye_amount(taxpayer, current_date, d) ==
    LET base == taxpayer.employee_count[1] * d.salary * 150
    IN  IF PeriodMonth(current_date) \in {11, 12} THEN Pct(base, 130) ELSE base

\* vat_amount, in mills: annual_turnover / 4 * uniform * 0.15
vat_amount(taxpayer, d) == Pct((taxpayer.annual_turnover[1] \div 4) * d.vat_factor, 15)

\* the dict of a payment of generate_payment_patterns
PatternPayment(taxpayer, current_date, tax_type, delay, channel, amount, n) ==
    [payment_id       |-> <<current_date, n>>,
     taxpayer_id      |-> taxpayer.taxpayer_id,
     payment_date     |-> current_date + delay,
     payment_channel  |-> channel,
     tax_type         |-> tax_type,
     period_year      |-> PeriodYear(current_date),
     period_month     |-> PeriodMonth(current_date),
     amount           |-> Round2(amount),
     reference_number |-> <<tax_type, current_date, taxpayer.taxpayer_id>>,
     status           |-> "Completed"]

\* the payments one iteration of the while loop appends, with draws d
PatternIteration(taxpayer, current_date, d) ==
    IF ~d.pays THEN << >>
    ELSE (IF taxpayer.employee_count[1] > 0
          THEN << PatternPayment(taxpayer, current_date, "PAYE", d.paye_delay,
                                 d.paye_channel, paye_amount(taxpayer, current_date, d), d.n) >>
          ELSE << >>)
         \o
         (IF PeriodMonth(current_date) % 3 = 0
          THEN << PatternPayment(taxpayer, current_date, "VAT", d.vat_delay,
                                 d.vat_channel, vat_amount(taxpayer, d), d.vat_n) >>
          ELSE << >>)

\* "Move to next period"
NextPeriod(taxpayer, current_date, d) ==
    CASE payment_frequency(taxpayer) = "monthly" -> current_date + 30
      [] payment_frequency(taxpayer) = "quarterly" -> current_date + 90
      [] OTHER -> current_date + d.step

\* what the while loop may append for one taxpayer from current_date on,
\* every iteration with draws of P
RECURSIVE PatternsFrom(_, _, _)
PatternsFrom(taxpayer, current_date, P) ==
    IF current_date > c_end_date THEN {<< >>}
    ELSE UNION {{PatternIteration(taxpayer, current_date, d) \o rest :
                    rest \in PatternsFrom(taxpayer, NextPeriod(taxpayer, current_date, d), P)} :
                d \in P}

\* what the loop over taxpayers_df may append from row i on
RECURSIVE PaymentPatterns(_, _)
PaymentPatterns(i, P) ==
    IF i > Len(c_taxpayers) THEN {<< >>}
    ELSE {first \o rest : first \in PatternsFrom(c_taxpayers[i], c_start_date, P),
                          rest \in PaymentPatterns(i + 1, P)}

\* payments_df = self.generate_payment_patterns(taxpayers_df)
generate_payment_patterns(P) ==
    /\ cpc = "generated"
    /\ c_payments' \in PaymentPatterns(1, P)
    /\ cpc' = "payments"
    /\ UNCHANGED << c_taxpayers, c_fraud_alerts >>
    /\ UNCHANGED << genVars, storeVars, mlVars, dagVars, extVars >>

\* the calendar quarter of a payment_date, pd.Grouper(freq='Q'), and the
\* last day of a quarter, the label the grouper gives it
QuarterOf(payment_date) == payment_date \div (3 * MonthDays)
QuarterEnd(q) == (q + 1) * 3 * MonthDays - 1

\* floor(1000 * x / y) for 0 <= x and 0 < y, digit by digit so that no
\* product leaves 32 bits
PerMille(x, y) ==
    LET r0 == x % y
        r1 == (r0 * 10) % y
        r2 == (r1 * 10) % y
    IN  (x \div y) * 1000 + ((r0 * 10) \div y) * 100 + ((r1 * 10) \div y) * 10 + (r2 * 10) \div y

\* ['amount'].sum() of rows, in cents
RECURSIVE SumAmounts(_)
SumAmounts(rows) == IF rows = << >> THEN 0 ELSE rows[1].amount \div 10 + SumAmounts(Tail(rows))

\* ['amount'].mean() of rows, in whole cents
MeanAmount(rows) == SumAmounts(rows) \div Len(rows)

RECURSIVE Flatten(_)
Flatten(seqs) == IF seqs = << >> THEN << >> ELSE seqs[1] \o Flatten(Tail(seqs))

\* the taxpayer_id values of a frame, in the order groupby leaves them
UniqueIds(rows) == Sorted({rows[i].taxpayer_id : i \in DOMAIN rows})

\* the rows of revenue_by_taxpayer of one taxpayer sorted by payment_date:
\* one row per quarter the taxpayer has a payment in, amount in cents
TaxpayerRevenue(payments_df, taxpayer_id) ==
    LET Mine(p) == p.taxpayer_id = taxpayer_id
        mine == SelectSeq(payments_df, Mine)
        quarters == Sorted({QuarterOf(mine[i].payment_date) : i \in DOMAIN mine})
    IN  [k \in DOMAIN quarters |->
            LET InQuarter(p) == QuarterOf(p.payment_date) = quarters[k]
            IN  [payment_date |-> QuarterEnd(quarters[k]),
                 amount       |-> SumAmounts(SelectSeq(mine, InQuarter))]]

\* the window of the four rows before row i
RollingSum_Previous(revenue, i) ==
    IF i < 5 THEN << >>
    ELSE << revenue[i - 4].amount + revenue[i - 3].amount + revenue[i - 2].amount + revenue[i - 1].amount >>

\* four times ['amount'].rolling(4).mean() at row i: the window is row i and
\* the three rows before it, and the mean is NaN while the window is short
RollingSum(revenue, i) ==
    IF i < 4 THEN << >>
    ELSE << revenue[i - 3].amount + revenue[i - 2].amount + revenue[i - 1].amount + revenue[i].amount >>

\* pct_change < -0.3 at row i, with pct_change = (amount - rolling_avg) /
\* rolling_avg = (4 * amount - sum) / sum; a comparison with NaN is False
IsSuspicious(revenue, i) ==
    LET sum == RollingSum(revenue, i)
    IN  sum # << >> /\ 40 * revenue[i].amount < 7 * sum[1]

\* abs(row['pct_change']) of a suspicious row, per mille
AbsPctChange(revenue, i) ==
    LET sum == RollingSum(revenue, i)[1]
    IN  PerMille(sum - 4 * revenue[i].amount, sum)

\* Pattern 1: the alerts for one taxpayer
SuddenRevenueDrops(payments_df, taxpayer_id) ==
    LET taxpayer_revenue == TaxpayerRevenue(payments_df, taxpayer_id)
        Suspicious(i) == IsSuspicious(taxpayer_revenue, i)
        suspicious == SelectSeq([i \in DOMAIN taxpayer_revenue |-> i], Suspicious)
    IN  IF Len(taxpayer_revenue) > 4
        THEN [k \in DOMAIN suspicious |->
                [taxpayer_id |-> taxpayer_id,
                 alert_date  |-> taxpayer_revenue[suspicious[k]].payment_date + 30,
                 alert_type  |-> "Sudden Revenue Drop",
                 risk_score  |-> Min(950, AbsPctChange(taxpayer_revenue, suspicious[k])),
                 status      |-> "Open"]]
        ELSE << >>

\* Pattern 2: the alert for one taxpayer that uses more than three channels
ChannelAnomaly(payments_df, taxpayer_id) ==
    LET channels == {payments_df[i].payment_channel :
                        i \in {j \in DOMAIN payments_df : payments_df[j].taxpayer_id = taxpayer_id}}
    IN  IF Cardinality(channels) > 3
        THEN << [taxpayer_id |-> taxpayer_id,
                 alert_date  |-> now,
                 alert_type  |-> "Payment Channel Anomaly",
                 risk_score  |-> Min(800, Cardinality(channels) * 200),
                 status      |-> "Open"] >>
        ELSE << >>

\* Pattern 3: the alert for one row of taxpayer_avg, the mean amount of a
\* taxpayer's payments of one tax type against the mean over the payments of
\* the taxpayers of its business_sector; variance < -0.5
BelowIndustryAverage(taxpayers_df, payments_df, taxpayer_id, tax_type) ==
    LET Row(t) == t.taxpayer_id = taxpayer_id
        row == SelectSeq(taxpayers_df, Row)
        Mine(p) == p.taxpayer_id = taxpayer_id /\ p.tax_type = tax_type
        mine == SelectSeq(payments_df, Mine)
        InSector(p) ==
            /\ p.tax_type = tax_type
            /\ \E i \in DOMAIN taxpayers_df :
                  /\ taxpayers_df[i].taxpayer_id = p.taxpayer_id
                  /\ taxpayers_df[i].business_sector = row[1].business_sector
        amount == MeanAmount(mine)
        amount_industry == MeanAmount(SelectSeq(payments_df, InSector))
    IN  IF row # << >> /\ mine # << >> /\ 2 * amount < amount_industry
        THEN << [taxpayer_id |-> taxpayer_id,
                 alert_date  |-> now,
                 alert_type  |-> "Below Industry Average",
                 risk_score  |-> Min(850, PerMille(amount_industry - amount, amount_industry)),
                 status      |-> "Open"] >>
        ELSE << >>

\* the fraud_alerts list of generate_fraud_patterns
FraudPatterns(taxpayers_df, payments_df) ==
    LET ids == UniqueIds(payments_df)
    IN  Flatten([k \in DOMAIN ids |-> SuddenRevenueDrops(payments_df, ids[k])])
        \o Flatten([k \in DOMAIN ids |-> ChannelAnomaly(payments_df, ids[k])])
        \o Flatten([k \in DOMAIN ids |->
                       BelowIndustryAverage(taxpayers_df, payments_df, ids[k], "PAYE")
                       \o BelowIndustryAverage(taxpayers_df, payments_df, ids[k], "VAT")])

\* fraud_df = self.generate_fraud_patterns(taxpayers_df, payments_df)
generate_fraud_patterns ==
    /\ cpc = "payments"
    /\ c_fraud_alerts' = FraudPatterns(c_taxpayers, c_payments)
    /\ cpc' = "patterns"
    /\ UNCHANGED << c_taxpayers, c_payments >>
    /\ UNCHANGED << genVars, storeVars, mlVars, dagVars, extVars >>

----------------------------------------------------------------------------
(* The CSV files and the tables of the store *)

\* the tables of the model, in the order load_data_to_postgres loads them;
\* it loads the three registries by the same loop body
Tables == << "taxpayers", "paye_returns", "vat_returns", "payments", "fraud_alerts" >>

\* the tables of the model the manual runner copies
RunnerTables == SubSeq(Tables, 1, 4)

\* a file is << >> while it does not exist and <<rows>> once written
NoFiles == [t \in {Tables[k] : k \in DOMAIN Tables} |-> << >>]
EmptyDb == [t \in {Tables[k] : k \in DOMAIN Tables} |-> << >>]

\* the columns of a generated return that to_csv writes
ReturnRow(r) == [f \in DOMAIN r \ {"draw"} |-> r[f]]

\* the operations that open a connection to the store
Operations == {"load_data_to_postgres", "load_to_database", "execute_query",
               "UpdateDashboardCache"}

NoConnection == [state |-> "none", txn |-> "none"]

\* generate_synthetic_data: generator.save_to_csv(all_data, ...)
save_to_csv ==
    /\ gpc = "returned"
    /\ gpc' = "saved"
    /\ csv' = [taxpayers    |-> <<taxpayers>>,
               paye_returns |-> <<[i \in DOMAIN paye_returns |-> ReturnRow(paye_returns[i])]>>,
               vat_returns  |-> <<[i \in DOMAIN vat_returns |-> ReturnRow(vat_returns[i])]>>,
               payments     |-> <<payments>>,
               fraud_alerts |-> <<fraud_alerts>>]
    /\ UNCHANGED << now, start_date, end_date, taxpayers, fraud_taxpayers,
                    paye_returns, vat_returns, payments, gidx, gdate >>
    /\ UNCHANGED << db, quality, pc, conn, ltable >>
    /\ UNCHANGED << compVars, mlVars, dagVars, extVars >>

----------------------------------------------------------------------------
(* gta_data_pipeline.load_data_to_postgres *)

\* default_args['retries'] of gta_data_pipeline
load_retries == 1

\* the runs of gta_data_pipeline
MaxDagRuns == 2

\* TRUNCATE TABLE t CASCADE on the tables d: t is emptied, and with it the
\* tables that reference raw.taxpayers when the schema declares such foreign
\* keys (cascade)
Truncated(d, t, cascade) ==
    [u \in DOMAIN d |->
        IF u = t \/ (cascade /\ t = "taxpayers") THEN << >> ELSE d[u]]

\* what the failed iteration of the loop has written inside its
\* transaction: nothing (TRUNCATE itself raised), or the table cleared and
\* the first k rows of the file inserted
FailedIterations(file) ==
    {<< >>} \cup {<<SubSeq(rows, 1, k)>> :
                     rows \in (IF file = << >> THEN {<< >>} ELSE {file[1]}),
                     k \in 0..(IF file = << >> THEN 0 ELSE Len(file[1]))}

\* the histories of rows that have just been inserted
NewAlerts(rows) == [i \in DOMAIN rows |-> <<rows[i].status>>]

\* a connection in autocommit mode: every statement of the failed iteration
\* is committed as it runs
AfterRollback_Autocommit(d, txn) ==
    IF txn.written = << >> THEN d ELSE [d EXCEPT ![txn.table] = txn.written[1]]

\* the tables as the other sessions see them once the connection of a failed
\* load is gone: psycopg2 opens a transaction with the first statement,
\* TRUNCATE is transactional, and the server rolls back what the
\* transaction txn has not committed
AfterRollback(d, txn) == d

\* hook.get_conn() and conn.cursor(), after task_generate_data has succeeded
load_data_to_postgres_open ==
    /\ gpc = "saved"
    /\ pc["load_data_to_postgres"] = "idle"
    /\ pc' = [pc EXCEPT !["load_data_to_postgres"] = "open"]
    /\ conn' = [conn EXCEPT !["load_data_to_postgres"] =
                    [state |-> "open", txn |-> "none"]]
    /\ ltable' = 1
    /\ loads' = [loads EXCEPT !.try = @ + 1]
    /\ UNCHANGED << csv, db, quality, pending, forecast >>
    /\ UNCHANGED << genVars, compVars, mlVars, dagVars, dashVars, runnerVars, alertVars >>

\* one iteration of the loop over tables: TRUNCATE, read_csv, the row
\* inserts and conn.commit()
load_data_to_postgres_table ==
    /\ pc["load_data_to_postgres"] = "open"
    /\ ltable <= Len(Tables)
    /\ csv[Tables[ltable]] # << >>
    /\ \E cascade \in BOOLEAN :
          /\ db' = [Truncated(db, Tables[ltable], cascade)
                       EXCEPT ![Tables[ltable]] = csv[Tables[ltable]][1]]
          /\ alert_history' =
                 IF Tables[ltable] = "fraud_alerts" \/ (cascade /\ Tables[ltable] = "taxpayers")
                 THEN NewAlerts(db'.fraud_alerts)
                 ELSE alert_history
    /\ conn' = [conn EXCEPT !["load_data_to_postgres"].txn = "committed"]
    /\ ltable' = ltable + 1
    /\ UNCHANGED << csv, quality, pc, pending, loads, forecast, fraud_alerts >>
    /\ UNCHANGED << genVars, compVars, mlVars, dagVars, dashVars, runnerVars >>

\* a statement of the iteration or read_csv raises: the exception leaves the
\* function, nothing rolls the open transaction back or closes the
\* connection, and what the iteration has written stays uncommitted
load_data_to_postgres_raise ==
    /\ pc["load_data_to_postgres"] = "open"
    /\ ltable <= Len(Tables)
    /\ pc' = [pc EXCEPT !["load_data_to_postgres"] = "raised"]
    /\ conn' = [conn EXCEPT !["load_data_to_postgres"].txn = "active"]
    /\ \E written \in FailedIterations(csv[Tables[ltable]]) :
          LET txn == [table   |-> Tables[ltable],
                      old     |-> db[Tables[ltable]],
                      written |-> written]
          IN  /\ pending' = <<txn>>
              /\ db' = AfterRollback(db, txn)
    /\ UNCHANGED << csv, quality, ltable, loads, forecast >>
    /\ UNCHANGED << genVars, compVars, mlVars, dagVars, dashVars, runnerVars, alertVars >>

\* after the loop: cursor.close() and conn.close()
load_data_to_postgres_close ==
    /\ pc["load_data_to_postgres"] = "open"
    /\ ltable > Len(Tables)
    /\ pc' = [pc EXCEPT !["load_data_to_postgres"] = "done"]
    /\ conn' = [conn EXCEPT !["load_data_to_postgres"].state = "closed"]
    /\ UNCHANGED << csv, db, quality, ltable, pending, loads, forecast >>
    /\ UNCHANGED << genVars, compVars, mlVars, dagVars, dashVars, runnerVars, alertVars >>

\* the scheduler runs the failed task again on the same files (retries): a
\* new process and a new connection, the connection of the earlier try is
\* gone and its transaction with it
load_data_to_postgres_retry ==
    /\ pc["load_data_to_postgres"] = "raised"
    /\ loads.try <= load_retries
    /\ pc' = [pc EXCEPT !["load_data_to_postgres"] = "open"]
    /\ conn' = [conn EXCEPT !["load_data_to_postgres"] =
                    [state |-> "open", txn |-> "none"]]
    /\ ltable' = 1
    /\ loads' = [loads EXCEPT !.try = @ + 1]
    /\ pending' = << >>
    /\ UNCHANGED << csv, db, quality, forecast >>
    /\ UNCHANGED << genVars, compVars, mlVars, dagVars, dashVars, runnerVars, alertVars >>

\* schedule_interval '0 2 * * *': the next run of gta_data_pipeline starts with
\* task_generate_data in a new process, once the load of the run before has
\* ended
gta_data_pipeline_next_run ==
    /\ pc["load_data_to_postgres"] \in {"done", "raised"}
    /\ loads.run < MaxDagRuns
    /\ taxpayers' = << >>
    /\ fraud_taxpayers' = {}
    /\ paye_returns' = << >>
    /\ vat_returns' = << >>
    /\ payments' = << >>
    /\ gpc' = "taxpayers"
    /\ gidx' = 0
    /\ gdate' = start_date
    /\ pc' = [pc EXCEPT !["load_data_to_postgres"] = "idle"]
    /\ loads' = [run |-> loads.run + 1, try |-> 0]
    /\ pending' = << >>
    /\ UNCHANGED << now, start_date, end_date, csv, db, quality, conn, ltable, forecast >>
    /\ UNCHANGED << compVars, mlVars, dagVars, dashVars, runnerVars, alertVars >>

----------------------------------------------------------------------------
(* revenue_forecasting: update_forecast_tables *)

\* the runs of revenue_forecasting
MaxForecastRuns == 2

\* the rows of revenue_forecasts.csv: ds, tax_type and yhat
ForecastRows ==
    [ds : {1, 2}, tax_type : {"PAYE"}, yhat : {100004}]

\* revenue_forecasts.csv as generate_forecasts has left it
ForecastFiles ==
    {<<r>> : r \in ForecastRows} \cup {<<r, q>> : r \in ForecastRows, q \in ForecastRows}

\* the INSERT ... ON CONFLICT (forecast_date, tax_type) DO UPDATE of one row
Upsert(table, row) ==
    IF \E i \in DOMAIN table :
           table[i].forecast_date = row.forecast_date /\ table[i].tax_type = row.tax_type
    THEN [i \in DOMAIN table |->
             IF table[i].forecast_date = row.forecast_date /\ table[i].tax_type = row.tax_type
             THEN row ELSE table[i]]
    ELSE Append(table, row)

\* the loop over forecasts_df.iterrows(), on an empty table
RECURSIVE InsertForecasts(_, _)
InsertForecasts(table, file) ==
    IF file = << >> THEN table
    ELSE InsertForecasts(
             Upsert(table, [forecast_date     |-> Head(file).ds,
                            tax_type          |-> Head(file).tax_type,
                            predicted_revenue |-> Round2(Head(file).yhat)]),
             Tail(file))

\* read_csv, then hook.run(create_table) and hook.run("TRUNCATE TABLE
\* analytics.revenue_forecasts"): hook.run commits each statement on a
\* connection of its own
update_forecast_tables_truncate ==
    /\ forecast.pc \in {"idle", "done", "raised"}
    /\ forecast.runs < MaxForecastRuns
    /\ \E file \in ForecastFiles :
          forecast' = [pc |-> "insert", file |-> file, table |-> << >>,
                       runs |-> forecast.runs + 1]
    /\ UNCHANGED << pending, loads >>
    /\ UNCHANGED << genVars, compVars, storeVars, mlVars, dagVars, dashVars, runnerVars, alertVars >>

\* hook.get_conn(), the inserts of the loop, conn.commit() and the closes
update_forecast_tables_insert ==
    /\ forecast.pc = "insert"
    /\ forecast' = [forecast EXCEPT !.pc = "done",
                                    !.table = InsertForecasts(<< >>, forecast.file)]
    /\ UNCHANGED << pending, loads >>
    /\ UNCHANGED << genVars, compVars, storeVars, mlVars, dagVars, dashVars, runnerVars, alertVars >>

\* get_conn or an insert raises: the inserts of the second connection are
\* never committed, the TRUNCATE of the first one was
update_forecast_tables_raise ==
    /\ forecast.pc = "insert"
    /\ forecast' = [forecast EXCEPT !.pc = "raised"]
    /\ UNCHANGED << pending, loads >>
    /\ UNCHANGED << genVars, compVars, storeVars, mlVars, dagVars, dashVars, runnerVars, alertVars >>

----------------------------------------------------------------------------
(* ComprehensiveDataGenerator.load_to_database *)

\* conn = self.connect_db() and conn.cursor(), on the result of generate_all
load_to_database_open ==
    /\ cpc = "patterns"
    /\ pc["load_to_database"] = "idle"
    /\ pc' = [pc EXCEPT !["load_to_database"] = "try"]
    /\ conn' = [conn EXCEPT !["load_to_database"] = [state |-> "open", txn |-> "none"]]
    /\ UNCHANGED << csv, db, quality, ltable >>
    /\ UNCHANGED << genVars, compVars, mlVars, dagVars, extVars >>

\* the statements of the try block before conn.commit(): the loop of
\* TRUNCATEs of lines 420-422 and the three execute_batch calls
TryStatements == << "truncate", "taxpayers", "payments", "fraud_alerts" >>

\* the dataframes argument: what generate_all has returned
Dataframes ==
    [taxpayers |-> c_taxpayers, payments |-> c_payments, fraud_alerts |-> c_fraud_alerts]

\* the tables as the transaction of load_to_database sees them after the
\* first k statements of the try block
WrittenBy(d, dataframes, k, cascade) ==
    LET cleared == Truncated(Truncated(Truncated(d, "payments", cascade),
                                       "fraud_alerts", cascade),
                             "taxpayers", cascade)
    IN  [t \in DOMAIN d |->
            IF k = 0 THEN d[t]
            ELSE IF \E j \in 2..k : TryStatements[j] = t THEN dataframes[t]
            ELSE cleared[t]]

\* a connection in autocommit mode: the statements that ran before the one
\* that raised stay written
RolledBack_Autocommit(d, written) == written

\* conn.rollback() of line 459 on the tables d the other sessions see: what
\* the transaction has written and not committed is discarded (psycopg2
\* opens a transaction with the first statement, TRUNCATE is transactional)
RolledBack(d, written) == d

\* the try block runs to its end: the TRUNCATEs, the inserts and conn.commit()
load_to_database_commit ==
    /\ pc["load_to_database"] = "try"
    /\ \E cascade \in BOOLEAN :
          db' = WrittenBy(db, Dataframes, Len(TryStatements), cascade)
    /\ alert_history' = NewAlerts(c_fraud_alerts)
    /\ pc' = [pc EXCEPT !["load_to_database"] = "finally"]
    /\ conn' = [conn EXCEPT !["load_to_database"].txn = "committed"]
    /\ UNCHANGED << csv, quality, ltable, fraud_alerts >>
    /\ UNCHANGED << genVars, compVars, mlVars, dagVars, dashVars, runnerVars, txnVars >>

\* a statement of the try block raises after k others have run (conn.commit()
\* itself after all of them): except runs conn.rollback() and re-raises
load_to_database_except ==
    /\ pc["load_to_database"] = "try"
    /\ pc' = [pc EXCEPT !["load_to_database"] = "finally_raise"]
    /\ conn' = [conn EXCEPT !["load_to_database"].txn = "rolled_back"]
    /\ \E k \in 0..Len(TryStatements), cascade \in BOOLEAN :
          db' = RolledBack(db, WrittenBy(db, Dataframes, k, cascade))
    /\ UNCHANGED << csv, quality, ltable >>
    /\ UNCHANGED << genVars, compVars, mlVars, dagVars, extVars >>

\* the finally block: cursor.close() and conn.close()
load_to_database_finally ==
    /\ pc["load_to_database"] \in {"finally", "finally_raise"}
    /\ pc' = [pc EXCEPT !["load_to_database"] =
                  IF pc["load_to_database"] = "finally" THEN "done" ELSE "raised"]
    /\ conn' = [conn EXCEPT !["load_to_database"].state = "closed"]
    /\ UNCHANGED << csv, db, quality, ltable >>
    /\ UNCHANGED << genVars, compVars, mlVars, dagVars, extVars >>

\* the script is started once more, lines 499-508: a new generator, and the
\* store as the run before has left it
generate_comprehensive_data_main ==
    /\ pc["load_to_database"] \in {"done", "raised"}
    /\ c_taxpayers' = << >>
    /\ c_payments' = << >>
    /\ c_fraud_alerts' = << >>
    /\ cpc' = "idle"
    /\ pc' = [pc EXCEPT !["load_to_database"] = "idle"]
    /\ conn' = [conn EXCEPT !["load_to_database"] = NoConnection]
    /\ UNCHANGED << csv, db, quality, ltable >>
    /\ UNCHANGED << genVars, mlVars, dagVars, extVars >>

----------------------------------------------------------------------------
(* app_fixed.execute_query *)

\* conn = get_connection()
execute_query_open ==
    /\ pc["execute_query"] = "idle"
    /\ pc' = [pc EXCEPT !["execute_query"] = "try"]
    /\ conn' = [conn EXCEPT !["execute_query"] = [state |-> "open", txn |-> "none"]]
    /\ UNCHANGED << csv, db, quality, ltable >>
    /\ UNCHANGED << genVars, compVars, mlVars, dagVars, extVars >>

\* pd.read_sql returns the frame, or raises
execute_query_read ==
    /\ pc["execute_query"] = "try"
    /\ \E raises \in BOOLEAN :
          pc' = [pc EXCEPT !["execute_query"] =
                     IF raises THEN "finally_raise" ELSE "finally"]
    /\ UNCHANGED << csv, db, quality, conn, ltable >>
    /\ UNCHANGED << genVars, compVars, mlVars, dagVars, extVars >>

\* the finally block: conn.close()
execute_query_finally ==
    /\ pc["execute_query"] \in {"finally", "finally_raise"}
    /\ pc' = [pc EXCEPT !["execute_query"] =
                  IF pc["execute_query"] = "finally" THEN "done" ELSE "raised"]
    /\ conn' = [conn EXCEPT !["execute_query"].state = "closed"]
    /\ UNCHANGED << csv, db, quality, ltable >>
    /\ UNCHANGED << genVars, compVars, mlVars, dagVars, extVars >>

\* the dashboard issues the next query
execute_query_return ==
    /\ pc["execute_query"] \in {"done", "raised"}
    /\ pc' = [pc EXCEPT !["execute_query"] = "idle"]
    /\ conn' = [conn EXCEPT !["execute_query"] = NoConnection]
    /\ UNCHANGED << csv, db, quality, ltable >>
    /\ UNCHANGED << genVars, compVars, mlVars, dagVars, extVars >>

----------------------------------------------------------------------------
(* app_fixed: the quick stats of the sidebar and the metrics of the
   Executive Overview page, one run of the script *)

\* the try blocks of one run in the order the script reaches them, each with
\* the queries it issues through execute_query_single; the page is the
\* Executive Overview, the first option of the radio
TryBlocks == << << "today_revenue" >>, << "active_alerts" >>, << "monthly_revenue", "last_year_revenue" >>, << "compliance_rate" >>, << "active_taxpayers" >> >>

\* the variables the handler of try block b sets to 0
HandlerDefaults(b) == IF Len(TryBlocks[b]) = 2 THEN {"monthly_revenue", "growth"} ELSE {TryBlocks[b][1]}

\* the handlers that call st.error: "except Exception as e" around today's
\* collections and around the monthly revenue queries; the handlers of active
\* alerts, compliance rate and active taxpayers are a bare "except:" that
\* only assigns the default
HandlerCallsError(b) == TryBlocks[b][1] \in {"today_revenue", "monthly_revenue"}

\* what a query returns through execute_query_single: df.iloc[0, 0], or 0
\* for an empty frame
MetricValueDraws == {0, 1500}

\* growth, in tenths of a percent
Growth(monthly_revenue, last_year_revenue) == IF last_year_revenue > 0 THEN ((monthly_revenue - last_year_revenue) * 1000) \div last_year_revenue ELSE 0

\* nothing is displayed yet
DashboardIdle == [block |-> 1, query |-> 1, value |-> [m \in {} |-> 0], errors |-> << >>, raised |-> {}]

\* the variables of the try block b once its last query has returned value
Assigned(b, q, value, old) == IF q = "last_year_revenue" THEN ("growth" :> Growth(old["monthly_revenue"], value)) @@ old ELSE (q :> value) @@ old

\* execute_query has ended for the query the script is at: the value is
\* assigned and the script goes on, or the exception reaches the handler of
\* the try block, which assigns the defaults and, in two of the five
\* handlers, calls st.error; the st.metric calls follow
render_metric ==
    /\ pc["execute_query"] \in {"done", "raised"}
    /\ dashboard.block <= Len(TryBlocks)
    /\ LET b == dashboard.block
           q == TryBlocks[b][dashboard.query]
           last == dashboard.query = Len(TryBlocks[b])
       IN  IF pc["execute_query"] = "raised"
           THEN dashboard' = [block |-> b + 1,
                              query |-> 1,
                              value |-> [m \in HandlerDefaults(b) |-> 0] @@ dashboard.value,
                              errors |-> IF HandlerCallsError(b)
                                         THEN Append(dashboard.errors, b)
                                         ELSE dashboard.errors,
                              raised |-> dashboard.raised \cup {b}]
           ELSE \E value \in MetricValueDraws :
                   dashboard' = [dashboard EXCEPT
                                    !.block = IF last THEN b + 1 ELSE b,
                                    !.query = IF last THEN 1 ELSE @ + 1,
                                    !.value = Assigned(b, q, value, @)]
    /\ pc' = [pc EXCEPT !["execute_query"] = "idle"]
    /\ conn' = [conn EXCEPT !["execute_query"] = NoConnection]
    /\ UNCHANGED << csv, db, quality, ltable >>
    /\ UNCHANGED << genVars, compVars, mlVars, dagVars, runnerVars, txnVars, alertVars >>

----------------------------------------------------------------------------
(* gta_pipeline.UpdateDashboardCache.run *)

\* db.get_connection() and conn.cursor()
UpdateDashboardCache_open ==
    /\ pc["UpdateDashboardCache"] = "idle"
    /\ pc' = [pc EXCEPT !["UpdateDashboardCache"] = "refresh"]
    /\ conn' = [conn EXCEPT !["UpdateDashboardCache"] = [state |-> "open", txn |-> "none"]]
    /\ UNCHANGED << csv, db, quality, ltable >>
    /\ UNCHANGED << genVars, compVars, mlVars, dagVars, extVars >>

\* the loop over the REFRESH statements runs to its end (every statement, or
\* the _create_materialized_views call of its handler, returns), then
\* conn.commit()
UpdateDashboardCache_refresh ==
    /\ pc["UpdateDashboardCache"] = "refresh"
    /\ pc' = [pc EXCEPT !["UpdateDashboardCache"] = "committed"]
    /\ conn' = [conn EXCEPT !["UpdateDashboardCache"].txn = "committed"]
    /\ UNCHANGED << csv, db, quality, ltable >>
    /\ UNCHANGED << genVars, compVars, mlVars, dagVars, extVars >>

\* a REFRESH raises and, inside the bare except, a statement of
\* _create_materialized_views raises as well: the exception leaves run
UpdateDashboardCache_raise ==
    /\ pc["UpdateDashboardCache"] = "refresh"
    /\ pc' = [pc EXCEPT !["UpdateDashboardCache"] = "raised"]
    /\ conn' = [conn EXCEPT !["UpdateDashboardCache"].txn = "active"]
    /\ UNCHANGED << csv, db, quality, ltable >>
    /\ UNCHANGED << genVars, compVars, mlVars, dagVars, extVars >>

\* cursor.close(), conn.close() and the flag file
UpdateDashboardCache_close ==
    /\ pc["UpdateDashboardCache"] = "committed"
    /\ pc' = [pc EXCEPT !["UpdateDashboardCache"] = "done"]
    /\ conn' = [conn EXCEPT !["UpdateDashboardCache"].state = "closed"]
    /\ UNCHANGED << csv, db, quality, ltable >>
    /\ UNCHANGED << genVars, compVars, mlVars, dagVars, extVars >>

----------------------------------------------------------------------------
(* gta_data_pipeline.check_data_quality *)

\* the taxpayer_id of a row whose taxpayer_id is NULL: both generators
\* build the taxpayer_id from the loop index, it is a number from 1 on, and
\* 0 stands for the missing one
NullId == 0

\* WHERE taxpayer_id IS NULL OR tin IS NULL
HasNullKey(rows) ==
    \E i \in DOMAIN rows : rows[i].taxpayer_id = NullId \/ rows[i].tin = << >>

\* only rows that agree in taxpayer_id as well count as duplicates
HasDuplicateTin_SameId(rows) ==
    \E i, j \in DOMAIN rows :
        i # j /\ rows[i].tin = rows[j].tin /\ rows[i].taxpayer_id = rows[j].taxpayer_id

\* GROUP BY tin HAVING COUNT(*) > 1 returns a row
HasDuplicateTin(rows) ==
    \E i, j \in DOMAIN rows : i # j /\ rows[i].tin = rows[j].tin

\* one of the two raise ValueError statements is reached
QualityCheckRaises(rows) == HasNullKey(rows) \/ HasDuplicateTin(rows)

\* runs on a loaded raw.taxpayers; raises ValueError on either finding
check_data_quality ==
    /\ \/ pc["load_data_to_postgres"] = "done"
       \/ pc["load_to_database"] = "done"
    /\ quality = "none" \/ task_state["data_quality_checks"] = "running"
    /\ quality' = IF QualityCheckRaises(db.taxpayers) THEN "failed" ELSE "passed"
    /\ UNCHANGED << csv, db, pc, conn, ltable >>
    /\ UNCHANGED << genVars, compVars, mlVars, dagVars, extVars >>

----------------------------------------------------------------------------
(* gta_data_pipeline.calculate_metrics *)

\* SQL values: << >> is NULL, <<v>> is the number v per mille
\* NULLIF(x, 0)
NullIf0(x) == IF x = 0 THEN << >> ELSE <<x>>
\* a / b on NUMERIC: NULL if either side is NULL
Divide(a, b) == IF a = << >> \/ b = << >> THEN << >> ELSE <<(a[1] * 1000) \div b[1]>>
\* LEAST and GREATEST of PostgreSQL ignore NULL arguments
LEAST(a, b) ==
    IF a = << >> THEN b ELSE IF b = << >> THEN a ELSE <<Min(a[1], b[1])>>
GREATEST(a, b) ==
    IF a = << >> THEN b ELSE IF b = << >> THEN a ELSE <<Max(a[1], b[1])>>

\* COALESCE(COUNT(*), 0) of the rows of one taxpayer
CountRows(rows, taxpayer_id, filed_only) ==
    Cardinality({i \in DOMAIN rows :
                    /\ rows[i].taxpayer_id = taxpayer_id
                    /\ filed_only => rows[i].status = "Filed"})

\* subq.new_score of one taxpayer
new_score(d, taxpayer_id) ==
    LET filed    == CountRows(d.paye_returns, taxpayer_id, TRUE)
                        + CountRows(d.vat_returns, taxpayer_id, TRUE)
        expected == CountRows(d.paye_returns, taxpayer_id, FALSE)
                        + CountRows(d.vat_returns, taxpayer_id, FALSE)
    IN  GREATEST(<<100>>, LEAST(<<950>>, Divide(<<filed>>, NullIf0(expected))))

\* hook.run(update_compliance): one UPDATE over every row of raw.taxpayers,
\* on a loaded store
calculate_metrics ==
    /\ \/ pc["load_data_to_postgres"] = "done"
       \/ pc["load_to_database"] = "done"
    /\ db' = [db EXCEPT !.taxpayers =
                 [i \in DOMAIN db.taxpayers |->
                     [db.taxpayers[i] EXCEPT !.compliance_score =
                         new_score(db, db.taxpayers[i].taxpayer_id)[1]]]]
    /\ UNCHANGED << csv, quality, pc, conn, ltable >>
    /\ UNCHANGED << genVars, compVars, mlVars, dagVars, extVars >>

----------------------------------------------------------------------------
(* run_pipeline: the manual pipeline runner *)

\* how often the operator starts the runner
MaxRuns == 2

\* the runner before main(): its position, the table its load loop is at,
\* the outcome of every step of this run so far, the tables this run has
\* copied, the exit status of the process (none while it runs) and the
\* number of runs started
RunnerIdle ==
    [pc |-> "idle", table |-> 1, log |-> << >>, copied |-> {},
     exit_code |-> << >>, runs |-> 0]

\* the step has run with this outcome
Logged(rec, step, outcome) ==
    [rec EXCEPT !.log = Append(@, [step |-> step, outcome |-> outcome])]

\* sys.exit(1)
Exit1(rec) == [rec EXCEPT !.pc = "exited", !.exit_code = <<1>>]

\* main() up to line 66: check_postgres_connection returns True, or False
\* and the runner exits with status 1
main_check_postgres_connection ==
    /\ runner.pc \in {"idle", "exited"}
    /\ runner.runs < MaxRuns
    /\ \E reachable \in BOOLEAN :
          LET started == [RunnerIdle EXCEPT !.runs = runner.runs + 1]
          IN  runner' = IF reachable
                        THEN [Logged(started, "check", "ok") EXCEPT !.pc = "generate"]
                        ELSE Exit1(Logged(started, "check", "failed"))
    /\ UNCHANGED << genVars, compVars, storeVars, mlVars, dagVars, dashVars, txnVars, alertVars >>

\* lines 73-79: the generator script exists and run_command starts it as a
\* new process, which builds a new GambianTaxDataGenerator; or it does not
\* exist, a message is printed and main() goes on
main_generate ==
    /\ runner.pc = "generate"
    /\ \E exists \in BOOLEAN :
          IF exists
          THEN /\ runner' = [runner EXCEPT !.pc = "generating"]
               /\ taxpayers' = << >>
               /\ fraud_taxpayers' = {}
               /\ paye_returns' = << >>
               /\ vat_returns' = << >>
               /\ payments' = << >>
               /\ gpc' = "taxpayers"
               /\ gidx' = 0
               /\ gdate' = start_date
          ELSE /\ runner' = [Logged(runner, "generate", "failed") EXCEPT !.pc = "load"]
               /\ UNCHANGED << taxpayers, fraud_taxpayers, paye_returns, vat_returns,
                               payments, gpc, gidx, gdate >>
    /\ UNCHANGED << now, start_date, end_date >>
    /\ UNCHANGED << compVars, storeVars, mlVars, dagVars, dashVars, txnVars, alertVars >>

\* run_command, lines 23-35, on the generator process: it has saved its CSV
\* files and returned 0, or it has died of an exception and run_command
\* calls sys.exit(1)
run_command_generate ==
    /\ runner.pc = "generating"
    /\ gpc \in {"saved", "failed"}
    /\ runner' = IF gpc = "saved"
                 THEN [Logged(runner, "generate", "ok") EXCEPT !.pc = "load"]
                 ELSE Exit1(Logged(runner, "generate", "failed"))
    /\ UNCHANGED << genVars, compVars, storeVars, mlVars, dagVars, dashVars, txnVars, alertVars >>

\* lines 87-102: taxpayers.csv exists and the loop over the tables starts, or
\* a message is printed and main() goes on
main_load ==
    /\ runner.pc = "load"
    /\ runner' = IF csv.taxpayers # << >>
                 THEN [runner EXCEPT !.pc = "copy", !.table = 1]
                 ELSE [Logged(runner, "load", "failed") EXCEPT !.pc = "dbt_run"]
    /\ UNCHANGED << genVars, compVars, storeVars, mlVars, dagVars, dashVars, txnVars, alertVars >>

\* one iteration of the loop of lines 96-100: psql's \copy appends the rows
\* of the file to the table and commits, or psql returns non-zero and
\* run_command calls sys.exit(1); a table without a file is passed over
main_load_copy ==
    /\ runner.pc = "copy"
    /\ runner.table <= Len(RunnerTables)
    /\ LET t == RunnerTables[runner.table]
       IN  IF csv[t] = << >>
           THEN /\ runner' = [runner EXCEPT !.table = @ + 1]
                /\ db' = db
           ELSE \E returncode \in {0, 1} :
                   IF returncode = 0
                   THEN /\ db' = [db EXCEPT ![t] = @ \o csv[t][1]]
                        /\ runner' = [runner EXCEPT !.table = @ + 1,
                                                    !.copied = @ \cup {t}]
                   ELSE /\ db' = db
                        /\ runner' = Exit1(Logged(runner, "load", "failed"))
    /\ UNCHANGED << csv, quality, pc, conn, ltable >>
    /\ UNCHANGED << genVars, compVars, mlVars, dagVars, dashVars, txnVars, alertVars >>

\* the loop over the tables is exhausted
main_load_end ==
    /\ runner.pc = "copy"
    /\ runner.table > Len(RunnerTables)
    /\ runner' = [Logged(runner, "load", "ok") EXCEPT !.pc = "dbt_run"]
    /\ UNCHANGED << genVars, compVars, storeVars, mlVars, dagVars, dashVars, txnVars, alertVars >>

\* lines 109-114: dbt run; without the dbt project a message is printed and
\* main() returns
main_dbt_run ==
    /\ runner.pc = "dbt_run"
    /\ \E exists \in BOOLEAN, returncode \in {0, 1} :
          runner' = IF ~exists
                    THEN [Logged(runner, "dbt_run", "skipped")
                             EXCEPT !.pc = "exited", !.exit_code = <<0>>]
                    ELSE IF returncode = 0
                    THEN [Logged(runner, "dbt_run", "ok") EXCEPT !.pc = "dbt_test"]
                    ELSE Exit1(Logged(runner, "dbt_run", "failed"))
    /\ UNCHANGED << genVars, compVars, storeVars, mlVars, dagVars, dashVars, txnVars, alertVars >>

\* lines 116-134: dbt test, then main() returns and the process ends with
\* status 0
main_dbt_test ==
    /\ runner.pc = "dbt_test"
    /\ \E returncode \in {0, 1} :
          runner' = IF returncode = 0
                    THEN [Logged(runner, "dbt_test", "ok")
                             EXCEPT !.pc = "exited", !.exit_code = <<0>>]
                    ELSE Exit1(Logged(runner, "dbt_test", "failed"))
    /\ UNCHANGED << genVars, compVars, storeVars, mlVars, dagVars, dashVars, txnVars, alertVars >>

----------------------------------------------------------------------------
(* ml_fraud_detection: the DAG runs and the persisted artifacts *)

\* the DAG runs that may be in progress at the same time
Runs == {"run_1", "run_2"}

\* fraud_detection_model.pkl, _scaler.pkl and _features.pkl, in the order
\* train_fraud_models dumps and score_all_taxpayers loads them
ArtifactFiles == << "model", "scaler", "features" >>
ArtifactNames == {ArtifactFiles[k] : k \in DOMAIN ArtifactFiles}

\* default_args['retries']
retries == 1

\* the content of a file: << >> while the file does not exist, else the run
\* and the try of the task instance that wrote it
Absent == << >>

\* a DAG run before its first task: the task in turn and the position inside
\* it, the tries of that task, the index of the artifact dumped next, the
\* artifacts the score task loaded, and what the score task has done so far
NewRun ==
    [task |-> "prepare", pc |-> "queued", try_number |-> 0, k |-> 1,
     loaded |-> [f \in ArtifactNames |-> Absent],
     missing |-> FALSE, rows_read |-> FALSE, scores |-> << >>,
     results |-> << >>, best_model |-> << >>, best_score |-> 0]

\* the exception of a task instance reaches Airflow: up for retry while
\* tries remain, failed (and the rest of the run with it) otherwise
TaskRaises(rec) ==
    IF rec.try_number <= retries
    THEN [rec EXCEPT !.pc = "queued"]
    ELSE [rec EXCEPT !.task = "failed", !.pc = "queued"]

\* the target variable of the feature query, lines 75-76: CASE WHEN
\* t.risk_category = 'High' AND t.compliance_score < 0.5 THEN 1 ELSE 0 END
is_fraud(t) == IF t.risk_category = "High" /\ t.compliance_score < 500 THEN 1 ELSE 0

\* prepare_fraud_features as the first task of the run: the query result goes
\* to fraud_features.csv
prepare_fraud_features(r) ==
    /\ run[r].task = "prepare"
    /\ run' = [run EXCEPT ![r] = [@ EXCEPT !.task = "train"]]
    /\ UNCHANGED << artifacts, fraud_scores >>
    /\ UNCHANGED << genVars, compVars, storeVars, dagVars, extVars >>

\* the keys of the models dict of lines 129-133, in insertion order
ModelNames == << "random_forest", "gradient_boosting", "xgboost" >>

\* validation ROC-AUC values (per mille) of the three models of one training
RocAucDraws == [DOMAIN ModelNames -> {0, 600, 900}]

\* the ROC-AUC values of the trainings that are not looked at more closely
RocAucDraws_One == {<< 900, 600, 900 >>}

\* the loop of lines 139-165 from model k on: best_model and best_score move
\* to a model whose roc_score is greater than best_score
RECURSIVE TrackBest(_, _, _)
TrackBest(roc, k, best) ==
    IF k > Len(ModelNames) THEN best
    ELSE IF roc[k] > best.best_score
         THEN TrackBest(roc, k + 1,
                        [best_score |-> roc[k], best_model |-> << ModelNames[k] >>])
         ELSE TrackBest(roc, k + 1, best)

\* lines 136-137 and the loop: best_model = None, best_score = 0
TrackBestModel(roc) ==
    TrackBest(roc, 1, [best_score |-> 0, best_model |-> << >>])

\* the locals of train_fraud_models are gone once it has returned or raised
WithoutLocals(rec) ==
    [rec EXCEPT !.results = << >>, !.best_model = << >>, !.best_score = 0]

\* train_fraud_models up to line 165: read the features, split, scale, fit
\* and evaluate the three models; any of these statements may raise
train_fraud_models_fit(r, R) ==
    /\ run[r].task = "train"
    /\ run[r].pc = "queued"
    /\ \E raises \in BOOLEAN, roc \in R :
          LET started == [run[r] EXCEPT !.try_number = @ + 1]
              best == TrackBestModel(roc)
          IN  run' = [run EXCEPT ![r] =
                         IF raises THEN TaskRaises(started)
                         ELSE [started EXCEPT !.pc = "dump", !.k = 1,
                                              !.results = roc,
                                              !.best_model = best.best_model,
                                              !.best_score = best.best_score]]
    /\ UNCHANGED << artifacts, fraud_scores >>
    /\ UNCHANGED << genVars, compVars, storeVars, dagVars, extVars >>

\* one joblib.dump of lines 169-171; best_model[1] of line 169 needs a
\* best_model that is not None
train_fraud_models_dump(r) ==
    /\ run[r].task = "train"
    /\ run[r].pc = "dump"
    /\ run[r].best_model # << >>
    /\ artifacts' = [artifacts EXCEPT ![ArtifactFiles[run[r].k]] = <<r, run[r].try_number>>]
    /\ run' = [run EXCEPT ![r] =
                  IF @.k < Len(ArtifactFiles)
                  THEN [@ EXCEPT !.k = @ + 1]
                  ELSE [@ EXCEPT !.pc = "report"]]
    /\ UNCHANGED fraud_scores
    /\ UNCHANGED << genVars, compVars, storeVars, dagVars, extVars >>

\* a statement from line 168 on raises (best_model is None, a dump or a
\* report write fails)
train_fraud_models_raise(r) ==
    /\ run[r].task = "train"
    /\ run[r].pc \in {"dump", "report"}
    /\ run' = [run EXCEPT ![r] = TaskRaises(WithoutLocals(@))]
    /\ UNCHANGED << artifacts, fraud_scores >>
    /\ UNCHANGED << genVars, compVars, storeVars, dagVars, extVars >>

\* the performance report and the feature importances are written and the
\* task succeeds
train_fraud_models_return(r) ==
    /\ run[r].task = "train"
    /\ run[r].pc = "report"
    /\ run' = [run EXCEPT ![r] = [WithoutLocals(@) EXCEPT !.task = "score",
                                                          !.pc = "queued",
                                                          !.try_number = 0]]
    /\ UNCHANGED << artifacts, fraud_scores >>
    /\ UNCHANGED << genVars, compVars, storeVars, dagVars, extVars >>

\* a file of /opt/airflow/models is removed from outside the DAG
artifact_removed(f) ==
    /\ artifacts[f] # Absent
    /\ artifacts' = [artifacts EXCEPT ![f] = Absent]
    /\ UNCHANGED << run, fraud_scores >>
    /\ UNCHANGED << genVars, compVars, storeVars, dagVars, extVars >>

----------------------------------------------------------------------------
(* ml_fraud_detection.score_all_taxpayers *)

\* the three joblib.load calls; the first absent file raises
\* FileNotFoundError
score_all_taxpayers_load(r) ==
    /\ run[r].task = "score"
    /\ run[r].pc = "queued"
    /\ LET started == [run[r] EXCEPT !.try_number = @ + 1, !.rows_read = FALSE]
       IN  run' = [run EXCEPT ![r] =
                      IF \E f \in ArtifactNames : artifacts[f] = Absent
                      THEN [TaskRaises(started) EXCEPT !.missing = TRUE]
                      ELSE [started EXCEPT !.pc = "loaded", !.loaded = artifacts]]
    /\ UNCHANGED << artifacts, fraud_scores >>
    /\ UNCHANGED << genVars, compVars, storeVars, dagVars, extVars >>

\* WHERE taxpayer_type IN ('Corporate', 'Partnership') and
\* paye_returns_count > 0 OR vat_returns_count > 0
IsScored(d, t) ==
    /\ IsCorporate(t)
    /\ \/ \E i \in DOMAIN d.paye_returns : d.paye_returns[i].taxpayer_id = t.taxpayer_id
       \/ \E i \in DOMAIN d.vat_returns : d.vat_returns[i].taxpayer_id = t.taxpayer_id

ScoredIds(d) ==
    {d.taxpayers[i].taxpayer_id : i \in {j \in DOMAIN d.taxpayers : IsScored(d, d.taxpayers[j])}}

\* model.predict_proba(X_scaled)[:, 1], per mille
ProbabilityDraws == {0, 300, 450, 700, 900, 1000}

\* the three bands of _categorize_risk in place of the four of pd.cut
fraud_risk_category_Thresholds(p) == categorize_risk(p)

\* pd.cut(p, bins=[0, 0.3, 0.6, 0.8, 1.0], labels=[...]): right-closed bins,
\* NaN outside them
fraud_risk_category(p) ==
    IF p <= 0 THEN "NaN"
    ELSE IF p <= 300 THEN "Low"
    ELSE IF p <= 600 THEN "Medium"
    ELSE IF p <= 800 THEN "High"
    ELSE IF p <= 1000 THEN "Critical"
    ELSE "NaN"

\* 1 - probability without the clamp
new_compliance_score_Unclamped(p) == 1000 - p

\* max(0.1, min(0.95, 1 - row['fraud_probability']))
new_compliance_score(p) == Max(100, Min(950, 1000 - p))

\* raw.taxpayers after the UPDATE of every scored row
ScoredTaxpayers(d, fraud_probability) ==
    [i \in DOMAIN d.taxpayers |->
        LET t == d.taxpayers[i]
        IN  IF t.taxpayer_id \in DOMAIN fraud_probability
            THEN [t EXCEPT !.risk_category =
                               fraud_risk_category(fraud_probability[t.taxpayer_id]),
                           !.compliance_score =
                               new_compliance_score(fraud_probability[t.taxpayer_id])]
            ELSE t]

\* df[['taxpayer_id', 'fraud_probability', 'fraud_risk_category']], in the
\* order of the rows read
ScoreRows(d, fraud_probability) ==
    LET IsRead(t) == t.taxpayer_id \in DOMAIN fraud_probability
        read == SelectSeq(d.taxpayers, IsRead)
    IN  [i \in DOMAIN read |->
            [taxpayer_id         |-> read[i].taxpayer_id,
             fraud_probability   |-> fraud_probability[read[i].taxpayer_id],
             fraud_risk_category |->
                 fraud_risk_category(fraud_probability[read[i].taxpayer_id])]]

\* lines 202-243: prepare_fraud_features reads the rows, the model scores
\* them, every row is updated and the transaction commits; with no row to
\* score scaler.transform raises
score_all_taxpayers_update(r, P) ==
    /\ run[r].task = "score"
    /\ run[r].pc = "loaded"
    /\ IF ScoredIds(db) = {}
       THEN /\ run' = [run EXCEPT ![r] = TaskRaises([@ EXCEPT !.rows_read = TRUE])]
            /\ db' = db
       ELSE \E fraud_probability \in [ScoredIds(db) -> P] :
               /\ db' = [db EXCEPT !.taxpayers = ScoredTaxpayers(db, fraud_probability)]
               /\ run' = [run EXCEPT ![r] =
                              [@ EXCEPT !.pc = "updated", !.rows_read = TRUE,
                                        !.scores = ScoreRows(db, fraud_probability)]]
    /\ UNCHANGED << artifacts, fraud_scores >>
    /\ UNCHANGED << csv, quality, pc, conn, ltable >>
    /\ UNCHANGED << genVars, compVars, dagVars, extVars >>

\* lines 246-251: fraud_scores.csv is written and the task succeeds
score_all_taxpayers_save(r) ==
    /\ run[r].task = "score"
    /\ run[r].pc = "updated"
    /\ fraud_scores' = <<r, run[r].try_number, run[r].scores>>
    /\ run' = [run EXCEPT ![r] = [@ EXCEPT !.task = "alerts", !.pc = "queued",
                                            !.try_number = 0]]
    /\ UNCHANGED artifacts
    /\ UNCHANGED << genVars, compVars, storeVars, dagVars, extVars >>

\* the order of the statuses of an alert
StatusRank(status) ==
    CASE status = "Open" -> 1
      [] status = "Under Investigation" -> 2
      [] status = "Closed" -> 3

\* an UPDATE that sets every alert to 'Open' again
CloseOpenAlerts_Reopen(rows) ==
    [i \in DOMAIN rows |-> [rows[i] EXCEPT !.status = "Open"]]

\* UPDATE analytics.fraud_alerts SET status = 'Closed' WHERE status = 'Open'
CloseOpenAlerts(rows) ==
    [i \in DOMAIN rows |->
        IF rows[i].status = "Open" THEN [rows[i] EXCEPT !.status = "Closed"] ELSE rows[i]]

\* the histories of the rows an UPDATE has left as rows
Updated(history, rows) ==
    [i \in DOMAIN rows |->
        IF rows[i].status = history[i][Len(history[i])]
        THEN history[i]
        ELSE Append(history[i], rows[i].status)]

\* the alerts inserted for the rows of fraud_scores.csv with
\* fraud_probability > 0.7 whose taxpayer the context query finds
HighRiskAlerts(scores, d) ==
    LET HasContext(row) ==
            /\ row.fraud_probability > 700
            /\ \E i \in DOMAIN d.taxpayers : d.taxpayers[i].taxpayer_id = row.taxpayer_id
        high_risk == SelectSeq(scores, HasContext)
    IN  [i \in DOMAIN high_risk |->
            [taxpayer_id |-> high_risk[i].taxpayer_id,
             alert_type  |-> "ML-Detected High Fraud Risk",
             risk_score  |-> high_risk[i].fraud_probability,
             status      |-> "Open"]]

\* generate_fraud_alerts reads fraud_scores.csv, closes the open alerts,
\* inserts the new ones and commits; the run ends
generate_fraud_alerts(r) ==
    /\ run[r].task = "alerts"
    /\ fraud_scores # Absent
    /\ LET closed == CloseOpenAlerts(db.fraud_alerts)
           inserted == HighRiskAlerts(fraud_scores[3], db)
       IN  /\ db' = [db EXCEPT !.fraud_alerts = closed \o inserted]
           /\ alert_history' = Updated(alert_history, closed) \o NewAlerts(inserted)
    /\ run' = [run EXCEPT ![r] = [@ EXCEPT !.task = "success"]]
    /\ UNCHANGED << artifacts, fraud_scores >>
    /\ UNCHANGED << csv, quality, pc, conn, ltable, fraud_alerts >>
    /\ UNCHANGED << genVars, compVars, dagVars, dashVars, runnerVars, txnVars >>

\* generate_fraud_alerts fails after hook.run of line 262, which commits the
\* UPDATE on a connection of its own: a context query, a fetch, an INSERT
\* or the commit of line 317 raises, the inserts of the loop are never
\* committed, and the exception reaches Airflow
generate_fraud_alerts_raise(r) ==
    /\ run[r].task = "alerts"
    /\ fraud_scores # Absent
    /\ LET closed == CloseOpenAlerts(db.fraud_alerts)
       IN  /\ db' = [db EXCEPT !.fraud_alerts = closed]
           /\ alert_history' = Updated(alert_history, closed)
    /\ run' = [run EXCEPT ![r] = TaskRaises([@ EXCEPT !.try_number = @ + 1])]
    /\ UNCHANGED << artifacts, fraud_scores >>
    /\ UNCHANGED << csv, quality, pc, conn, ltable, fraud_alerts >>
    /\ UNCHANGED << genVars, compVars, dagVars, dashVars, runnerVars, txnVars >>

----------------------------------------------------------------------------
(* The task graphs of one run of each pipeline *)

\* task_generate_data >> task_load_data >> ... >> task_calculate_metrics
MainTasks == << "generate_synthetic_data", "load_data_to_postgres",
                "data_quality_checks", "run_dbt_models", "test_dbt_models",
                "calculate_metrics" >>
\* task_prepare_features >> task_train_models >> task_score_taxpayers >>
\* task_generate_alerts
MLTasks == << "prepare_fraud_features", "train_fraud_models",
              "score_all_taxpayers", "generate_fraud_alerts" >>

AirflowTasks == {MainTasks[k] : k \in DOMAIN MainTasks}
                    \cup {MLTasks[k] : k \in DOMAIN MLTasks}

\* the requires() of each Luigi task
requires ==
    [GenerateRealtimeData        |-> {},
     ProcessRealtimeTransactions |-> {"GenerateRealtimeData"},
     TrainFraudDetectionModel    |-> {},
     DetectAnomalies             |-> {"ProcessRealtimeTransactions"},
     GeneratePredictiveInsights  |-> {"TrainFraudDetectionModel", "DetectAnomalies"},
     UpdateDashboardCache        |-> {"ProcessRealtimeTransactions",
                                      "GeneratePredictiveInsights"},
     MasterPipeline              |-> {"UpdateDashboardCache", "DetectAnomalies",
                                      "TrainFraudDetectionModel"}]

LuigiTasks == DOMAIN requires

Tasks == AirflowTasks \cup LuigiTasks

\* the tasks of the pipeline task t belongs to
Pipeline(t) ==
    IF t \in {MainTasks[k] : k \in DOMAIN MainTasks} THEN {MainTasks[k] : k \in DOMAIN MainTasks}
    ELSE IF t \in {MLTasks[k] : k \in DOMAIN MLTasks} THEN {MLTasks[k] : k \in DOMAIN MLTasks}
    ELSE LuigiTasks

\* the run under way is the run of the pipeline of task t
RunOf(t) == \A u \in Tasks \ Pipeline(t) : task_tries[u] = 0

\* a >> b makes a the upstream task of b
ChainUpstream(chain, t) ==
    {chain[k] : k \in {j \in DOMAIN chain : j + 1 \in DOMAIN chain /\ chain[j + 1] = t}}

\* the main DAG without its dependency line
Upstream_MainUnchained(t) ==
    IF t \in LuigiTasks THEN requires[t] ELSE ChainUpstream(MLTasks, t)

\* the direct upstream tasks of task t
Upstream(t) ==
    IF t \in LuigiTasks THEN requires[t]
    ELSE ChainUpstream(MainTasks, t) \cup ChainUpstream(MLTasks, t)

\* the scheduler starts a task instance whose upstream tasks all succeeded
\* (trigger rule all_success), for the first time or for its retry
airflow_task_start(t) ==
    /\ t \in AirflowTasks
    /\ RunOf(t)
    /\ task_state[t] \in {"none", "up_for_retry"}
    /\ \A u \in Upstream(t) : task_state[u] = "success"
    /\ task_state' = [task_state EXCEPT ![t] = "running"]
    /\ task_tries' = [task_tries EXCEPT ![t] = @ + 1]
    /\ UNCHANGED << genVars, compVars, storeVars, mlVars, extVars >>

\* the callable or the bash command returns
airflow_task_success(t) ==
    /\ t \in AirflowTasks
    /\ task_state[t] = "running"
    /\ task_state' = [task_state EXCEPT ![t] = "success"]
    /\ UNCHANGED task_tries
    /\ UNCHANGED << genVars, compVars, storeVars, mlVars, extVars >>

\* the callable raises or the command exits non-zero: default_args gives
\* every task one retry
airflow_task_raise(t) ==
    /\ t \in AirflowTasks
    /\ task_state[t] = "running"
    /\ task_state' = [task_state EXCEPT ![t] =
                          IF task_tries[t] <= retries THEN "up_for_retry" ELSE "failed"]
    /\ UNCHANGED task_tries
    /\ UNCHANGED << genVars, compVars, storeVars, mlVars, extVars >>

\* a task below a failed task is never started
airflow_upstream_failed(t) ==
    /\ t \in AirflowTasks
    /\ task_state[t] = "none"
    /\ \E u \in Upstream(t) : task_state[u] \in {"failed", "upstream_failed"}
    /\ task_state' = [task_state EXCEPT ![t] = "upstream_failed"]
    /\ UNCHANGED task_tries
    /\ UNCHANGED << genVars, compVars, storeVars, mlVars, extVars >>

\* luigi.build([MasterPipeline()]) with its one worker: the worker runs a
\* pending task whose requirements are complete, one task at a time
luigi_task_start(t) ==
    /\ t \in LuigiTasks
    /\ RunOf(t)
    /\ task_state[t] = "none"
    /\ \A u \in LuigiTasks : task_state[u] # "running"
    /\ \A u \in requires[t] : task_state[u] = "success"
    /\ task_state' = [task_state EXCEPT ![t] = "running"]
    /\ task_tries' = [task_tries EXCEPT ![t] = @ + 1]
    /\ UNCHANGED << genVars, compVars, storeVars, mlVars, extVars >>

\* run() returns and the outputs exist
luigi_task_success(t) ==
    /\ t \in LuigiTasks
    /\ task_state[t] = "running"
    /\ task_state' = [task_state EXCEPT ![t] = "success"]
    /\ UNCHANGED task_tries
    /\ UNCHANGED << genVars, compVars, storeVars, mlVars, extVars >>

\* run() raises: the task is failed and what requires it stays pending
luigi_task_raise(t) ==
    /\ t \in LuigiTasks
    /\ task_state[t] = "running"
    /\ task_state' = [task_state EXCEPT ![t] = "failed"]
    /\ UNCHANGED task_tries
    /\ UNCHANGED << genVars, compVars, storeVars, mlVars, extVars >>

----------------------------------------------------------------------------
(* Initial states *)

CompInit ==
    /\ c_taxpayers = << >>
    /\ c_payments = << >>
    /\ c_fraud_alerts = << >>
    /\ cpc = "idle"

StoreInit ==
    /\ csv = NoFiles
    /\ db = EmptyDb
    /\ quality = "none"
    /\ pc = [o \in Operations |-> "idle"]
    /\ conn = [o \in Operations |-> NoConnection]
    /\ ltable = 1

MLInit ==
    /\ artifacts = [f \in ArtifactNames |-> Absent]
    /\ run = [r \in Runs |-> NewRun]
    /\ fraud_scores = Absent

\* no pipeline run has been triggered
DagIdle ==
    /\ task_state = [t \in Tasks |-> "none"]
    /\ task_tries = [t \in Tasks |-> 0]

\* the programs beside the pipelines have not been started
ExtInit ==
    /\ runner = RunnerIdle
    /\ pending = << >>
    /\ loads = [run |-> 1, try |-> 0]
    /\ forecast = [pc |-> "idle", file |-> << >>, table |-> << >>, runs |-> 0]
    /\ fraud_alerts = << >>
    /\ alert_history = << >>
    /\ dashboard = DashboardIdle

\* one run of each pipeline is triggered; TrainFraudDetectionModel takes no
\* date, so its outputs may exist from an earlier build and the task is then
\* complete from the start
DagInit ==
    /\ task_state \in {[t \in Tasks |-> IF t = "TrainFraudDetectionModel" THEN st ELSE "none"] :
                          st \in {"none", "success"}}
    /\ task_tries = [t \in Tasks |-> 0]


----------------------------------------------------------------------------
(* Specifications *)

Init ==
    /\ GenInit
    /\ CompInit
    /\ StoreInit
    /\ MLInit
    /\ DagIdle
    /\ ExtInit

\* one run of GambianTaxDataGenerator.generate_all_data
Next ==
    \/ generate_taxpayers(GenDraws)
    \/ generate_paye_returns(GenDraws)
    \/ generate_paye_returns_end
    \/ generate_vat_select
    \/ generate_vat_returns(GenDraws)
    \/ generate_vat_returns_end
    \/ generate_payments_paye(GenDraws)
    \/ generate_payments_vat(GenDraws)

Spec == Init /\ [][Next]_vars

\* a generator's output has been loaded into the store
Loaded ==
    \/ pc["load_data_to_postgres"] = "done"
    \/ pc["load_to_database"] = "done"

\* the draws of the loading pipelines: both TINs, one honest Corporate or an
\* Individual, every return filed on its due date and paid
LoadDraws ==
    [taxpayer     |-> {d \in TaxpayerDraws :
                          /\ d.taxpayer_type \in {"Corporate", "Individual"}
                          /\ d.taxpayer_type = "Individual" => d.tin = <<100, 100000, 1>>
                          /\ ~d.is_fraud
                          /\ d.annual_turnover = 2000000
                          /\ d.risk_category = "Low"
                          /\ d.compliance_score = 600},
     fraud_factor |-> FraudFactorDraws,
     paye_offset  |-> {0},
     vat_offset   |-> {15},
     input_fraud  |-> {120},
     pays         |-> {TRUE},
     alert_status |-> {"Open"},
     skip         |-> BOOLEAN,
     payment_id   |-> PaymentIdDraws]

\* every iteration pays at once, by bank transfer, the least amounts
LoadPatternDraws ==
    {d \in PaymentPatternDraws :
        /\ d.pays /\ d.salary = 3000 /\ d.vat_factor = 800
        /\ d.paye_delay = 0 /\ d.vat_delay = 0
        /\ d.paye_channel = "Bank Transfer" /\ d.vat_channel = "Bank Transfer"
        /\ d.step = 30}

LoadComprehensiveDraws ==
    {d \in ComprehensiveDraws :
        /\ d.business_type = "Banking"
        /\ d.years_active = 5
        /\ ~d.inconsistent
        /\ d.normal = 700
        /\ d.taxpayer_type = "Corporate"
        /\ d.employee_count = 20
        /\ d.annual_turnover = 2000000}

\* either generator script, the load of its output, the quality check on the
\* loaded population, and the dashboard's connections meanwhile
NextLoad ==
    \/ generate_taxpayers(LoadDraws)
    \/ generate_paye_returns(LoadDraws)
    \/ generate_paye_returns_end
    \/ generate_vat_select
    \/ generate_vat_returns(LoadDraws)
    \/ generate_vat_returns_end
    \/ generate_payments_paye(LoadDraws)
    \/ generate_payments_vat(LoadDraws)
    \/ generate_all_data(LoadDraws)
    \/ save_to_csv
    \/ load_data_to_postgres_open
    \/ load_data_to_postgres_table
    \/ load_data_to_postgres_raise
    \/ load_data_to_postgres_close
    \/ Comprehensive_generate_taxpayers(LoadComprehensiveDraws)
    \/ generate_payment_patterns(LoadPatternDraws)
    \/ generate_fraud_patterns
    \/ load_to_database_open
    \/ load_to_database_commit
    \/ load_to_database_except
    \/ load_to_database_finally
    \/ check_data_quality
    \/ execute_query_open
    \/ execute_query_read
    \/ execute_query_finally
    \/ execute_query_return
    \/ UpdateDashboardCache_open
    \/ UpdateDashboardCache_refresh
    \/ UpdateDashboardCache_raise
    \/ UpdateDashboardCache_close

SpecLoad == Init /\ [][NextLoad]_vars

\* the draws of the scored store: one TIN; an honest Corporate files PAYE
\* late or in time and VAT in time, a fraud-flagged one may skip either, an
\* NGO below the VAT threshold files nothing
StoreDraws ==
    [taxpayer     |-> {d \in TaxpayerDraws :
                          /\ d.tin = <<100, 100000, 1>>
                          /\ d.taxpayer_type \in {"Corporate", "NGO"}
                          /\ d.taxpayer_type = "NGO" =>
                                 (~d.is_fraud /\ d.annual_turnover = 1000000)
                          /\ d.taxpayer_type = "Corporate" => d.annual_turnover = 2000000
                          /\ d.risk_category \in {"Low", "High"}
                          /\ d.compliance_score \in {200, 600}},
     fraud_factor |-> FraudFactorDraws,
     paye_offset  |-> PayeOffsetDraws,
     vat_offset   |-> {15},
     input_fraud  |-> {120},
     pays         |-> {TRUE},
     alert_status |-> {"Open"},
     skip         |-> BOOLEAN,
     payment_id   |-> PaymentIdDraws]

StoreComprehensiveDraws ==
    {d \in ComprehensiveDraws :
        /\ d.tin = <<100, 100000, 1>>
        /\ d.taxpayer_type = "Corporate"
        /\ d.employee_count = 20
        /\ d.annual_turnover = 2000000
        /\ <<d.business_type, d.years_active, d.inconsistent, d.normal>> \in
               {<<"Agriculture", 0, TRUE, 700>>, <<"Agriculture", 5, FALSE, -200>>,
                <<"Retail", 0, TRUE, 700>>, <<"Banking", 5, FALSE, 1500>>}}

\* the probabilities the scoring of the store draws from
StoreProbabilityDraws == {0, 450, 1000}

\* the main DAG's generation and load, or the comprehensive script, then
\* calculate_metrics and one run of the ML DAG, triggered on the loaded
\* store, in any order
NextStore ==
    \/ generate_taxpayers(StoreDraws)
    \/ generate_paye_returns(StoreDraws)
    \/ generate_paye_returns_end
    \/ generate_vat_select
    \/ generate_vat_returns(StoreDraws)
    \/ generate_vat_returns_end
    \/ generate_payments_paye(StoreDraws)
    \/ generate_payments_vat(StoreDraws)
    \/ generate_all_data(StoreDraws)
    \/ save_to_csv
    \/ load_data_to_postgres_open
    \/ load_data_to_postgres_table
    \/ load_data_to_postgres_raise
    \/ load_data_to_postgres_close
    \/ Comprehensive_generate_taxpayers(StoreComprehensiveDraws)
    \/ generate_payment_patterns(LoadPatternDraws)
    \/ generate_fraud_patterns
    \/ load_to_database_open
    \/ load_to_database_commit
    \/ load_to_database_except
    \/ load_to_database_finally
    \/ calculate_metrics
    \/ Loaded /\ prepare_fraud_features("run_1")
    \/ train_fraud_models_fit("run_1", RocAucDraws_One)
    \/ train_fraud_models_dump("run_1")
    \/ train_fraud_models_raise("run_1")
    \/ train_fraud_models_return("run_1")
    \/ score_all_taxpayers_load("run_1")
    \/ score_all_taxpayers_update("run_1", StoreProbabilityDraws)
    \/ score_all_taxpayers_save("run_1")
    \/ generate_fraud_alerts("run_1")

SpecStore == Init /\ [][NextStore]_vars

\* the draws of the store the ML DAG reads: two honest Corporate taxpayers
MLDraws ==
    [taxpayer     |-> {d \in TaxpayerDraws :
                          /\ d.tin = <<100, 100000, 1>>
                          /\ d.taxpayer_type = "Corporate"
                          /\ ~d.is_fraud
                          /\ d.annual_turnover = 2000000
                          /\ d.risk_category = "Low"
                          /\ d.compliance_score = 600},
     fraud_factor |-> FraudFactorDraws,
     paye_offset  |-> {0},
     vat_offset   |-> {15},
     input_fraud  |-> {120},
     pays         |-> {TRUE},
     alert_status |-> {"Open"},
     skip         |-> BOOLEAN,
     payment_id   |-> PaymentIdDraws]

\* the main DAG's generation and load, then the runs of the ML DAG, which
\* nothing keeps from overlapping, with the artifact files open to removal
NextML ==
    \/ generate_taxpayers(MLDraws)
    \/ generate_paye_returns(MLDraws)
    \/ generate_paye_returns_end
    \/ generate_vat_select
    \/ generate_vat_returns(MLDraws)
    \/ generate_vat_returns_end
    \/ generate_payments_paye(MLDraws)
    \/ generate_payments_vat(MLDraws)
    \/ generate_all_data(MLDraws)
    \/ save_to_csv
    \/ load_data_to_postgres_open
    \/ load_data_to_postgres_table
    \/ load_data_to_postgres_close
    \/ Loaded /\ \E r \in Runs : prepare_fraud_features(r)
    \/ \E r \in Runs : train_fraud_models_fit(r, RocAucDraws_One)
    \/ \E r \in Runs : train_fraud_models_dump(r)
    \/ \E r \in Runs : train_fraud_models_raise(r)
    \/ \E r \in Runs : train_fraud_models_return(r)
    \/ \E f \in ArtifactNames : artifact_removed(f)
    \/ \E r \in Runs : score_all_taxpayers_load(r)
    \/ \E r \in Runs : score_all_taxpayers_update(r, {450})
    \/ \E r \in Runs : score_all_taxpayers_save(r)
    \/ \E r \in Runs : generate_fraud_alerts(r)

SpecML == Init /\ [][NextML]_vars

\* one run of the main DAG, of the ML DAG or of luigi.build
NextDag ==
    \/ \E t \in Tasks : airflow_task_start(t)
    \/ \E t \in Tasks : airflow_task_success(t)
    \/ \E t \in Tasks : airflow_task_raise(t)
    \/ \E t \in Tasks : airflow_upstream_failed(t)
    \/ \E t \in Tasks : luigi_task_start(t)
    \/ \E t \in Tasks : luigi_task_success(t)
    \/ \E t \in Tasks : luigi_task_raise(t)

InitDag ==
    /\ GenInit
    /\ CompInit
    /\ StoreInit
    /\ MLInit
    /\ DagInit
    /\ ExtInit

SpecDag == InitDag /\ [][NextDag]_vars

\* the draws of the scheduled runs: honest Corporates with one TIN and a
\* turnover on either side of the VAT threshold, every return filed on its
\* due date and paid
ReloadDraws ==
    [LoadDraws EXCEPT !.taxpayer = {d \in TaxpayerDraws :
                                       /\ d.tin = <<100, 100000, 1>>
                                       /\ d.taxpayer_type = "Corporate"
                                       /\ ~d.is_fraud
                                       /\ d.risk_category = "Low"
                                       /\ d.compliance_score = 600}]

\* gta_data_pipeline has had its runs; revenue_forecasting shares no file
\* and no table with it, the steps of the two commute, and those of
\* revenue_forecasting are taken last
LoadsEnded ==
    /\ loads.run = MaxDagRuns
    /\ pc["load_data_to_postgres"] = "done"

NextReload ==
    \/ generate_taxpayers(ReloadDraws)
    \/ generate_paye_returns(ReloadDraws)
    \/ generate_paye_returns_end
    \/ generate_vat_select
    \/ generate_vat_returns(ReloadDraws)
    \/ generate_vat_returns_end
    \/ generate_payments_paye(ReloadDraws)
    \/ generate_payments_vat(ReloadDraws)
    \/ generate_all_data(ReloadDraws)
    \/ save_to_csv
    \/ load_data_to_postgres_open
    \/ load_data_to_postgres_table
    \/ load_data_to_postgres_raise
    \/ load_data_to_postgres_close
    \/ load_data_to_postgres_retry
    \/ gta_data_pipeline_next_run
    \/ LoadsEnded /\ update_forecast_tables_truncate
    \/ LoadsEnded /\ update_forecast_tables_insert
    \/ LoadsEnded /\ update_forecast_tables_raise

SpecReload == Init /\ [][NextReload]_vars

\* the draws of a run of gta_data_pipeline: honest Corporates with either
\* TIN, every return filed on its due date and paid
MainDraws ==
    [LoadDraws EXCEPT !.taxpayer = {d \in @ : d.taxpayer_type = "Corporate"}]

\* the task instance of task t is executing its callable
Running(t) == task_state[t] = "running"

\* one run of gta_data_pipeline: each callable runs inside its task
\* instance, and the task instance ends as its callable ends; the two dbt
\* commands end either way
NextMain ==
    \/ \E k \in DOMAIN MainTasks : airflow_task_start(MainTasks[k])
    \/ \E k \in DOMAIN MainTasks : airflow_upstream_failed(MainTasks[k])
    \/ Running("generate_synthetic_data") /\ generate_taxpayers(MainDraws)
    \/ Running("generate_synthetic_data") /\ generate_paye_returns(MainDraws)
    \/ Running("generate_synthetic_data") /\ generate_paye_returns_end
    \/ Running("generate_synthetic_data") /\ generate_vat_select
    \/ Running("generate_synthetic_data") /\ generate_vat_returns(MainDraws)
    \/ Running("generate_synthetic_data") /\ generate_vat_returns_end
    \/ Running("generate_synthetic_data") /\ generate_payments_paye(MainDraws)
    \/ Running("generate_synthetic_data") /\ generate_payments_vat(MainDraws)
    \/ Running("generate_synthetic_data") /\ generate_all_data(MainDraws)
    \/ Running("generate_synthetic_data") /\ save_to_csv
    \/ gpc = "saved" /\ airflow_task_success("generate_synthetic_data")
    \/ Running("load_data_to_postgres") /\ load_data_to_postgres_open
    \/ Running("load_data_to_postgres") /\ load_data_to_postgres_table
    \/ Running("load_data_to_postgres") /\ load_data_to_postgres_raise
    \/ Running("load_data_to_postgres") /\ load_data_to_postgres_close
    \/ /\ Running("load_data_to_postgres")
       /\ task_tries["load_data_to_postgres"] > loads.try
       /\ load_data_to_postgres_retry
    \/ /\ pc["load_data_to_postgres"] = "raised"
       /\ task_tries["load_data_to_postgres"] = loads.try
       /\ airflow_task_raise("load_data_to_postgres")
    \/ pc["load_data_to_postgres"] = "done" /\ airflow_task_success("load_data_to_postgres")
    \/ Running("data_quality_checks") /\ check_data_quality
    \/ quality = "passed" /\ airflow_task_success("data_quality_checks")
    \/ quality = "failed" /\ airflow_task_raise("data_quality_checks")
    \/ \E t \in {"run_dbt_models", "test_dbt_models"} : airflow_task_success(t)
    \/ \E t \in {"run_dbt_models", "test_dbt_models"} : airflow_task_raise(t)
    \/ Running("calculate_metrics") /\ calculate_metrics
    \/ airflow_task_success("calculate_metrics")
    \/ airflow_task_raise("calculate_metrics")

SpecMain == Init /\ [][NextMain]_vars

\* the draws of the runs that raise alerts: flagged Corporates with one
\* TIN, every return filed on its due date and paid, and an alert of any
\* status for each of them
AlertDraws ==
    [MLDraws EXCEPT !.taxpayer = {d \in TaxpayerDraws :
                                     /\ d.tin = <<100, 100000, 1>>
                                     /\ d.taxpayer_type = "Corporate"
                                     /\ d.is_fraud
                                     /\ d.annual_turnover = 2000000
                                     /\ d.compliance_score = 200},
                    !.alert_status = AlertStatusDraws,
                    !.skip = {FALSE}]

\* the probabilities of the scoring runs that raise alerts, per mille
AlertProbabilityDraws == {900}

\* no run of ml_fraud_detection is under way
NoRunUnderWay == \A r \in Runs : run[r].task \in {"prepare", "success", "failed"}

\* the runs of gta_data_pipeline, each loading what it has generated, and
\* a run of ml_fraud_detection after one of the loads
NextAlerts ==
    \/ generate_taxpayers(AlertDraws)
    \/ generate_paye_returns(AlertDraws)
    \/ generate_paye_returns_end
    \/ generate_vat_select
    \/ generate_vat_returns(AlertDraws)
    \/ generate_vat_returns_end
    \/ generate_payments_paye(AlertDraws)
    \/ generate_payments_vat(AlertDraws)
    \/ generate_all_data(AlertDraws)
    \/ save_to_csv
    \/ load_data_to_postgres_open
    \/ load_data_to_postgres_table
    \/ load_data_to_postgres_close
    \/ NoRunUnderWay /\ gta_data_pipeline_next_run
    \/ Loaded /\ prepare_fraud_features("run_1")
    \/ train_fraud_models_fit("run_1", RocAucDraws_One)
    \/ train_fraud_models_dump("run_1")
    \/ train_fraud_models_return("run_1")
    \/ score_all_taxpayers_load("run_1")
    \/ score_all_taxpayers_update("run_1", AlertProbabilityDraws)
    \/ score_all_taxpayers_save("run_1")
    \/ generate_fraud_alerts("run_1")

SpecAlerts == Init /\ [][NextAlerts]_vars

\* the same runs with an alert step that may fail in its loop
NextAlertsRaise ==
    \/ NextAlerts
    \/ generate_fraud_alerts_raise("run_1")

SpecAlertsRaise == Init /\ [][NextAlertsRaise]_vars

\* the runs of gta_data_pipeline on Corporates that are fraud cases or not,
\* and the queries of the dashboard, which nothing keeps from running while
\* a load is under way
SnapshotDraws ==
    [AlertDraws EXCEPT !.taxpayer = {d \in TaxpayerDraws :
                                        /\ d.tin = <<100, 100000, 1>>
                                        /\ d.taxpayer_type = "Corporate"
                                        /\ d.annual_turnover = 2000000
                                        /\ d.risk_category = (IF d.is_fraud THEN "High" ELSE "Low")
                                        /\ d.compliance_score \in {200, 600}},
                       !.alert_status = {"Open"}]

NextSnapshot ==
    \/ generate_taxpayers(SnapshotDraws)
    \/ generate_paye_returns(SnapshotDraws)
    \/ generate_paye_returns_end
    \/ generate_vat_select
    \/ generate_vat_returns(SnapshotDraws)
    \/ generate_vat_returns_end
    \/ generate_payments_paye(SnapshotDraws)
    \/ generate_payments_vat(SnapshotDraws)
    \/ generate_all_data(SnapshotDraws)
    \/ save_to_csv
    \/ load_data_to_postgres_open
    \/ load_data_to_postgres_table
    \/ load_data_to_postgres_close
    \/ gta_data_pipeline_next_run
    \/ execute_query_open
    \/ execute_query_read
    \/ execute_query_finally
    \/ execute_query_return

SpecSnapshot == Init /\ [][NextSnapshot]_vars

\* the generator process the runner starts is running
Generating == runner.pc = "generating"

\* the draws of the generator process the runner starts: one TIN, an honest
\* Corporate or an Individual, every return filed on its due date and paid
RunnerDraws ==
    [taxpayer     |-> {d \in TaxpayerDraws :
                          /\ d.tin = <<100, 100000, 1>>
                          /\ d.taxpayer_type \in {"Corporate", "Individual"}
                          /\ ~d.is_fraud
                          /\ d.annual_turnover = 2000000
                          /\ d.risk_category = "Low"
                          /\ d.compliance_score = 600},
     fraud_factor |-> FraudFactorDraws,
     paye_offset  |-> {0},
     vat_offset   |-> {15},
     input_fraud  |-> {120},
     pays         |-> {TRUE},
     alert_status |-> {"Open"},
     skip         |-> BOOLEAN,
     payment_id   |-> PaymentIdDraws]

\* the scoring step on the four probabilities 0.1, 0.4, 0.7 and 0.9: one
\* load of fraud cases that file every return, then the two runs of
\* ml_fraud_detection one after the other
BandProbabilityDraws == {100, 400, 700, 900}

ScoreDraws == [AlertDraws EXCEPT !.alert_status = {"Open"}]

FirstRunEnded == run["run_1"].task \in {"success", "failed"}

NextScore ==
    \/ generate_taxpayers(ScoreDraws)
    \/ generate_paye_returns(ScoreDraws)
    \/ generate_paye_returns_end
    \/ generate_vat_select
    \/ generate_vat_returns(ScoreDraws)
    \/ generate_vat_returns_end
    \/ generate_payments_paye(ScoreDraws)
    \/ generate_payments_vat(ScoreDraws)
    \/ generate_all_data(ScoreDraws)
    \/ save_to_csv
    \/ load_data_to_postgres_open
    \/ load_data_to_postgres_table
    \/ load_data_to_postgres_close
    \/ Loaded /\ prepare_fraud_features("run_1")
    \/ FirstRunEnded /\ prepare_fraud_features("run_2")
    \/ \E r \in {"run_1", "run_2"} : train_fraud_models_fit(r, RocAucDraws_One)
    \/ \E r \in {"run_1", "run_2"} : train_fraud_models_dump(r)
    \/ \E r \in {"run_1", "run_2"} : train_fraud_models_return(r)
    \/ \E r \in {"run_1", "run_2"} : score_all_taxpayers_load(r)
    \/ \E r \in {"run_1", "run_2"} : score_all_taxpayers_update(r, BandProbabilityDraws)
    \/ \E r \in {"run_1", "run_2"} : score_all_taxpayers_save(r)
    \/ \E r \in {"run_1", "run_2"} : generate_fraud_alerts(r)

SpecScore == Init /\ [][NextScore]_vars

\* one scoring run on the endpoints 0 and 1, the breakpoints 0.3, 0.6 and
\* 0.8 and the probabilities next to them
BandEdgeDraws == {0, 1, 300, 301, 600, 601, 800, 801, 1000}

NextBands ==
    \/ generate_taxpayers(ScoreDraws)
    \/ generate_paye_returns(ScoreDraws)
    \/ generate_paye_returns_end
    \/ generate_vat_select
    \/ generate_vat_returns(ScoreDraws)
    \/ generate_vat_returns_end
    \/ generate_payments_paye(ScoreDraws)
    \/ generate_payments_vat(ScoreDraws)
    \/ generate_all_data(ScoreDraws)
    \/ save_to_csv
    \/ load_data_to_postgres_open
    \/ load_data_to_postgres_table
    \/ load_data_to_postgres_close
    \/ Loaded /\ prepare_fraud_features("run_1")
    \/ train_fraud_models_fit("run_1", RocAucDraws_One)
    \/ train_fraud_models_dump("run_1")
    \/ train_fraud_models_return("run_1")
    \/ score_all_taxpayers_load("run_1")
    \/ score_all_taxpayers_update("run_1", BandEdgeDraws)
    \/ score_all_taxpayers_save("run_1")

SpecBands == Init /\ [][NextBands]_vars

\* one training of ml_fraud_detection over every combination of the three
\* validation ROC-AUC values, with the retry Airflow gives the task
NextTrain ==
    \/ prepare_fraud_features("run_1")
    \/ train_fraud_models_fit("run_1", RocAucDraws)
    \/ train_fraud_models_dump("run_1")
    \/ train_fraud_models_raise("run_1")
    \/ train_fraud_models_return("run_1")

SpecTrain == Init /\ [][NextTrain]_vars

\* generate_fraud_patterns on revenue series: one taxpayer with one payment
\* in each of up to MaxQuarters consecutive quarters, every payment either
\* the full amount or 60% of it
MaxQuarters == 8

SeriesAmounts == {1000, 2000}

SeriesTaxpayer ==
    ComprehensiveTaxpayer(0, [business_type |-> "Banking", years_active |-> 5,
                              inconsistent |-> FALSE, normal |-> 700,
                              tin |-> <<100, 100000, 1>>, taxpayer_type |-> "Corporate",
                              employee_count |-> 20, annual_turnover |-> 2000000])

\* the payment of quarter q with amount GMD, in mills
SeriesPayment(q, amount) ==
    [payment_id       |-> <<q * 3 * MonthDays, 1000>>,
     taxpayer_id      |-> SeriesTaxpayer.taxpayer_id,
     payment_date     |-> q * 3 * MonthDays,
     payment_channel  |-> "Bank Transfer",
     tax_type         |-> "VAT",
     period_year      |-> PeriodYear(q * 3 * MonthDays),
     period_month     |-> PeriodMonth(q * 3 * MonthDays),
     amount           |-> amount * 1000,
     reference_number |-> <<"VAT", q * 3 * MonthDays, SeriesTaxpayer.taxpayer_id>>,
     status           |-> "Completed"]

RevenueSeries ==
    UNION {{[q \in 1..n |-> SeriesPayment(q, IF q \in dropped THEN (a \div 10) * 6 ELSE a)] :
               dropped \in SUBSET (1..n)} :
           n \in 4..MaxQuarters, a \in SeriesAmounts}

InitPatterns ==
    /\ GenInit
    /\ c_taxpayers = << SeriesTaxpayer >>
    /\ c_payments \in RevenueSeries
    /\ c_fraud_alerts = << >>
    /\ cpc = "payments"
    /\ StoreInit
    /\ MLInit
    /\ DagIdle
    /\ ExtInit

NextPatterns ==
    \/ generate_fraud_patterns
    \/ load_to_database_open
    \/ load_to_database_commit
    \/ load_to_database_except
    \/ load_to_database_finally

SpecPatterns == InitPatterns /\ [][NextPatterns]_vars

\* the payments of the two generators; each script is run on its own. The
\* taxpayers of generate_all_data are Corporates, honest or not, with the
\* inflated input VAT that turns the net VAT negative; those of generate_all
\* pay monthly or now and then, with and without employees
PaymentDraws ==
    [GenDraws EXCEPT !.taxpayer = {d \in TaxpayerDraws :
                                      /\ d.tin = <<100, 100000, 1>>
                                      /\ d.taxpayer_type = "Corporate"
                                      /\ d.annual_turnover = 2000000
                                      /\ d.risk_category \in {"Low", "High"}
                                      /\ d.compliance_score \in {500, 600}},
                     !.paye_offset = {0},
                     !.vat_offset = {15},
                     !.skip = {FALSE}]

PaymentComprehensiveDraws ==
    {d \in ComprehensiveDraws :
        /\ d.business_type = "Banking"
        /\ d.years_active = 5
        /\ ~d.inconsistent
        /\ d.normal \in {-200, 1500}
        /\ d.tin = <<100, 100000, 1>>
        /\ d.taxpayer_type = "Corporate"
        /\ d.annual_turnover = 2000000}

PaymentPatternDraws_Few ==
    {d \in PaymentPatternDraws :
        /\ d.salary = 3000 /\ d.vat_factor = 800
        /\ d.paye_delay = 15 /\ d.vat_delay = 20
        /\ d.paye_channel = "Cash" /\ d.vat_channel = "Online"
        /\ d.step = 120}

NextPayments ==
    \/ generate_taxpayers(PaymentDraws)
    \/ generate_paye_returns(PaymentDraws)
    \/ generate_paye_returns_end
    \/ generate_vat_select
    \/ generate_vat_returns(PaymentDraws)
    \/ generate_vat_returns_end
    \/ generate_payments_paye(PaymentDraws)
    \/ generate_payments_vat(PaymentDraws)
    \/ Comprehensive_generate_taxpayers(PaymentComprehensiveDraws)
    \/ generate_payment_patterns(PaymentPatternDraws_Few)
    \/ generate_fraud_patterns

SpecPayments == Init /\ [][NextPayments]_vars

\* generate_all_data called again and again on one generator of Corporates
\* that file every return and pay every liability
CallDraws ==
    [PaymentDraws EXCEPT !.taxpayer = {d \in PaymentDraws.taxpayer :
                                          d.is_fraud \/ d.risk_category = "Low"},
                         !.pays = {TRUE},
                         !.input_fraud = {120}]

NextCalls ==
    \/ generate_taxpayers(CallDraws)
    \/ generate_paye_returns(CallDraws)
    \/ generate_paye_returns_end
    \/ generate_vat_select
    \/ generate_vat_returns(CallDraws)
    \/ generate_vat_returns_end
    \/ generate_payments_paye(CallDraws)
    \/ generate_payments_vat(CallDraws)
    \/ generate_all_data(CallDraws)
    \/ generate_all_data_call

SpecCalls == Init /\ [][NextCalls]_vars

\* generate_comprehensive_data.py run again and again on one store, with
\* taxpayers of two sectors
RerunComprehensiveDraws ==
    {d \in ComprehensiveDraws :
        /\ d.business_type \in {"Banking", "Agriculture"}
        /\ d.years_active = 5
        /\ ~d.inconsistent
        /\ d.normal = 700
        /\ d.tin = <<100, 100000, 1>>
        /\ d.taxpayer_type = "Corporate"
        /\ d.employee_count = 20
        /\ d.annual_turnover = 2000000}

NextRerun ==
    \/ Comprehensive_generate_taxpayers(RerunComprehensiveDraws)
    \/ generate_payment_patterns(LoadPatternDraws)
    \/ generate_fraud_patterns
    \/ load_to_database_open
    \/ load_to_database_commit
    \/ load_to_database_except
    \/ load_to_database_finally
    \/ generate_comprehensive_data_main

SpecRerun == Init /\ [][NextRerun]_vars

\* the payments of the two generators with two numbers for each payment_id:
\* honest Corporates that file and pay every return on its due date
IdDraws ==
    [PaymentDraws EXCEPT !.taxpayer = {d \in PaymentDraws.taxpayer :
                                          ~d.is_fraud /\ d.risk_category = "Low"
                                              /\ d.compliance_score = 600},
                         !.pays = {TRUE},
                         !.input_fraud = {120},
                         !.payment_id = {1000, 9999}]

IdComprehensiveDraws == {d \in PaymentComprehensiveDraws : d.normal = 1500}

IdPatternDraws ==
    {[d EXCEPT !.n = paye_n, !.vat_n = vat_n] :
        d \in {e \in LoadPatternDraws : e.step = 30},
        paye_n \in {10000, 99999}, vat_n \in {10000, 99999}}

NextIds ==
    \/ generate_taxpayers(IdDraws)
    \/ generate_paye_returns(IdDraws)
    \/ generate_paye_returns_end
    \/ generate_vat_select
    \/ generate_vat_returns(IdDraws)
    \/ generate_vat_returns_end
    \/ generate_payments_paye(IdDraws)
    \/ generate_payments_vat(IdDraws)
    \/ Comprehensive_generate_taxpayers(IdComprehensiveDraws)
    \/ generate_payment_patterns(IdPatternDraws)

SpecIds == Init /\ [][NextIds]_vars

\* generate_fraud_patterns on payment channels: two taxpayers, each with one
\* payment through every channel of a set of channels, all in one quarter
ChannelOrder == << "Online", "Mobile Money", "Bank Transfer", "Cash", "Cheque" >>

ChannelTaxpayers == << SeriesTaxpayer, [SeriesTaxpayer EXCEPT !.taxpayer_id = 2] >>

\* the payments of taxpayer_id through the channels of used
ChannelPayments(taxpayer_id, used) ==
    LET IsUsed(channel) == channel \in used
        channels == SelectSeq(ChannelOrder, IsUsed)
    IN  [k \in DOMAIN channels |->
            [SeriesPayment(1, 1000) EXCEPT !.taxpayer_id = taxpayer_id,
                                           !.payment_id = <<3 * MonthDays, 1000 + 10 * taxpayer_id + k>>,
                                           !.payment_channel = channels[k]]]

ChannelFrames ==
    {ChannelPayments(1, first) \o ChannelPayments(2, second) :
        first \in SUBSET PaymentChannels \ {{}}, second \in SUBSET PaymentChannels \ {{}}}

InitChannels ==
    /\ GenInit
    /\ c_taxpayers = ChannelTaxpayers
    /\ c_payments \in ChannelFrames
    /\ c_fraud_alerts = << >>
    /\ cpc = "payments"
    /\ StoreInit
    /\ MLInit
    /\ DagIdle
    /\ ExtInit

SpecChannels == InitChannels /\ [][NextPatterns]_vars

\* one run of the dashboard script: query after query through
\* execute_query, each ending in the try block that issued it
RenderingMetrics == dashboard.block <= Len(TryBlocks)

NextDash ==
    \/ RenderingMetrics /\ execute_query_open
    \/ execute_query_read
    \/ execute_query_finally
    \/ render_metric

SpecDash == Init /\ [][NextDash]_vars

\* the operator runs the manual runner, time and again; the generator script
\* runs as the process the runner has started
NextRunner ==
    \/ main_check_postgres_connection
    \/ main_generate
    \/ run_command_generate
    \/ main_load
    \/ main_load_copy
    \/ main_load_end
    \/ main_dbt_run
    \/ main_dbt_test
    \/ Generating /\ generate_taxpayers(RunnerDraws)
    \/ Generating /\ generate_paye_returns(RunnerDraws)
    \/ Generating /\ generate_paye_returns_end
    \/ Generating /\ generate_vat_select
    \/ Generating /\ generate_vat_returns(RunnerDraws)
    \/ Generating /\ generate_vat_returns_end
    \/ Generating /\ generate_payments_paye(RunnerDraws)
    \/ Generating /\ generate_payments_vat(RunnerDraws)
    \/ Generating /\ generate_all_data(RunnerDraws)
    \/ Generating /\ save_to_csv

SpecRunner == Init /\ [][NextRunner]_vars

----------------------------------------------------------------------------
(* Claims about the generator run *)

Returns == {paye_returns[i] : i \in DOMAIN paye_returns}
               \cup {vat_returns[i] : i \in DOMAIN vat_returns}
Payments == {payments[i] : i \in DOMAIN payments}

\* C1: every generated PAYE and VAT return has status 'Filed' exactly when its
\* persisted filing_date is non-null and not after its due_date, and status
\* 'Overdue' otherwise.
C1_StatusMatchesFilingDate ==
    \A r \in Returns :
        /\ r.status \in {"Filed", "Overdue"}
        /\ r.status = "Filed" <=>
               (r.filing_date # << >> /\ r.filing_date[1] <= r.due_date)

\* the tax liability a return reports
Liability(r) == IF r.return_id[1] = "PAYE" THEN r.net_payment ELSE r.net_vat_payable

\* the liability of a return after the fraud factors drawn for it, computed
\* from the values before the fraud pattern
DeflatedLiability(r) ==
    IF r.return_id[1] = "PAYE"
    THEN Round2(Pct(r.draw.paye_tax, r.draw.factor))
    ELSE Round2(Pct(r.draw.output_vat, r.draw.output_factor)
                    - Pct(r.draw.input_vat, r.draw.input_factor))

\* C2: every payment references a return of the same taxpayer and tax type by
\* its return_id, and its amount is that return's reported liability, which
\* carries the fraud deflation drawn for the return.
C2_PaymentMatchesReturn ==
    \A p \in Payments :
        \E r \in Returns :
            /\ r.return_id = p.reference_number
            /\ r.return_id[1] = p.tax_type
            /\ r.taxpayer_id = p.taxpayer_id
            /\ p.amount = Liability(r)
            /\ p.amount = DeflatedLiability(r)

\* a finished run in which a fraud-flagged taxpayer paid a deflated PAYE
\* liability and somebody paid VAT
C2_Witness ==
    /\ gpc = "done"
    /\ \E p \in Payments :
          /\ p.tax_type = "PAYE"
          /\ p.taxpayer_id \in fraud_taxpayers
          /\ \E r \in Returns : r.return_id = p.reference_number /\ r.draw.factor < 100
    /\ \E p \in Payments : p.tax_type = "VAT"

\* C6: in a return of a fraud-flagged taxpayer every correlated field carries
\* the same fraud factor: gross_salaries, paye_tax, social_security,
\* total_deductions and net_payment of a PAYE return are the undistorted
\* values scaled by the one factor, and net_vat_payable of a VAT return is
\* output_vat - input_vat on the reported values.
C6_FraudFactorConsistent ==
    /\ \A i \in DOMAIN paye_returns :
          LET r == paye_returns[i]
              f == r.draw.factor
          IN  r.taxpayer_id \in fraud_taxpayers =>
                  /\ r.gross_salaries = Round2(Pct(r.draw.gross, f))
                  /\ r.paye_tax = Round2(Pct(r.draw.paye_tax, f))
                  /\ r.social_security = Round2(Pct(r.draw.social_security, f))
                  /\ r.total_deductions =
                         Round2(Pct(r.draw.paye_tax, f) + Pct(r.draw.social_security, f))
                  /\ r.net_payment = Round2(Pct(r.draw.paye_tax, f))
    /\ \A i \in DOMAIN vat_returns :
          LET r == vat_returns[i]
          IN  r.taxpayer_id \in fraud_taxpayers =>
                  /\ r.net_vat_payable - (r.output_vat - r.input_vat) \in -10..10
                  /\ r.net_vat_payable =
                         Round2(Pct(r.draw.output_vat, r.draw.output_factor)
                                    - Pct(r.draw.input_vat, r.draw.input_factor))

----------------------------------------------------------------------------
(* Claims about the store *)

\* every taxpayer row the generators hold and the store has committed
TaxpayerRows ==
    {taxpayers[i] : i \in DOMAIN taxpayers}
        \cup {c_taxpayers[i] : i \in DOMAIN c_taxpayers}
        \cup {db.taxpayers[i] : i \in DOMAIN db.taxpayers}

\* C3: after any sequence of generation, calculate_metrics and
\* score_all_taxpayers, the compliance_score of every taxpayer lies in
\* [0.1, 0.95].
C3_ComplianceScoreInRange ==
    \A t \in TaxpayerRows : t.compliance_score \in 100..950

\* calculate_metrics has given 0.95 to a taxpayer without any return, and
\* scoring has then written the lower clamp for a probability of 1
C3_Witness ==
    /\ \E i \in DOMAIN db.taxpayers \cap DOMAIN taxpayers :
          /\ CountRows(db.paye_returns, db.taxpayers[i].taxpayer_id, FALSE) = 0
          /\ CountRows(db.vat_returns, db.taxpayers[i].taxpayer_id, FALSE) = 0
          /\ db.taxpayers[i].compliance_score = 950
          /\ taxpayers[i].compliance_score # 950
    /\ \E i \in DOMAIN db.taxpayers \cap DOMAIN taxpayers :
          /\ db.taxpayers[i].taxpayer_id \in ScoredIds(db)
          /\ db.taxpayers[i].compliance_score = 100
          /\ taxpayers[i].compliance_score # 100
    /\ run["run_1"].pc = "updated"

\* C4: after any sequence of generation and score_all_taxpayers, the
\* risk_category of every taxpayer is one of Low, Medium and High.
C4_RiskCategoryInDomain ==
    \A t \in TaxpayerRows : t.risk_category \in RiskCategories

\* C5: in every population either generate_taxpayers builds, every tin is
\* non-null and no two taxpayers share a tin, and check_data_quality passes
\* on the loaded population.
C5_TinUniqueAndQualityPasses ==
    /\ \A rows \in {taxpayers, c_taxpayers, db.taxpayers} :
          ~HasNullKey(rows) /\ ~HasDuplicateTin(rows)
    /\ quality # "failed"

\* C9: an operation that has opened a connection and has returned or raised
\* has closed the connection, with no transaction left uncommitted and not
\* rolled back.
C9_ConnectionClosedOnEveryExit ==
    \A o \in Operations :
        pc[o] \in {"done", "raised"} =>
            /\ conn[o].state = "closed"
            /\ conn[o].txn # "active"

----------------------------------------------------------------------------
(* Claims about the ML DAG *)

\* C7: a score_all_taxpayers try that finds an artifact missing fails before
\* it has read or updated a row or written fraud_scores.csv, and the task is
\* failed for good: it gets no second try.
C7_MissingArtifactIsFatal ==
    \A r \in Runs :
        run[r].missing =>
            /\ ~run[r].rows_read
            /\ (fraud_scores = Absent \/ fraud_scores[1] # r)
            /\ run[r].task = "failed"
            /\ run[r].try_number = 1

\* C8: the model, the scaler and the feature list a scoring step has loaded
\* were written by one and the same training.
C8_ArtifactsLoadedAsAUnit ==
    \A r \in Runs :
        (run[r].task = "score" /\ run[r].pc \in {"loaded", "updated"}) =>
            \A f, g \in ArtifactNames : run[r].loaded[f] = run[r].loaded[g]

----------------------------------------------------------------------------
(* Claims about the task graphs *)

\* the dependency order the pipelines declare
DeclaredUpstream ==
    [load_data_to_postgres      |-> {"generate_synthetic_data"},
     data_quality_checks        |-> {"load_data_to_postgres"},
     run_dbt_models             |-> {"data_quality_checks"},
     test_dbt_models            |-> {"run_dbt_models"},
     calculate_metrics          |-> {"test_dbt_models"},
     train_fraud_models         |-> {"prepare_fraud_features"},
     score_all_taxpayers        |-> {"train_fraud_models"},
     generate_fraud_alerts      |-> {"score_all_taxpayers"},
     GeneratePredictiveInsights |-> {"TrainFraudDetectionModel", "DetectAnomalies"},
     UpdateDashboardCache       |-> {"ProcessRealtimeTransactions",
                                     "GeneratePredictiveInsights"}]

\* C10: within one pipeline run no task has started before every task it
\* depends on has succeeded, and no two tasks of the pipeline run at the
\* same time.
C10_TasksRunInDependencyOrder ==
    /\ \A t \in DOMAIN DeclaredUpstream :
          task_tries[t] > 0 => \A u \in DeclaredUpstream[t] : task_state[u] = "success"
    /\ \A t, u \in Tasks :
          (t # u /\ u \in Pipeline(t)) =>
              ~(task_state[t] = "running" /\ task_state[u] = "running")

\* the Luigi build has run TrainFraudDetectionModel and every task up to
\* UpdateDashboardCache
C10_Witness ==
    /\ task_state["UpdateDashboardCache"] = "success"
    /\ task_tries["TrainFraudDetectionModel"] = 1
    /\ task_tries["GeneratePredictiveInsights"] = 1

----------------------------------------------------------------------------
(* Claims about the manual runner *)

\* a step of the run under way has failed
StepFailed == \E i \in DOMAIN runner.log : runner.log[i].outcome = "failed"

\* the last Len(rows) rows of the table are rows
EndsWith(table, rows) ==
    /\ Len(table) >= Len(rows)
    /\ SubSeq(table, Len(table) - Len(rows) + 1, Len(table)) = rows

\* C11: in the manual runner, once a step has failed (the database is
\* unreachable, the generator script or the CSV input is missing, or a
\* command returns non-zero) no later step is executed and the run ends with
\* a failure status, and what the run has copied and committed before stays
\* in the store.
C11_RunnerFailsFast ==
    /\ \A i \in DOMAIN runner.log :
          runner.log[i].outcome = "failed" => i = Len(runner.log)
    /\ (StepFailed /\ runner.pc = "exited") => runner.exit_code = <<1>>
    /\ \A t \in runner.copied : EndsWith(db[t], csv[t][1])


\* C12: every bulk load clears its table first, so after a load has finished
\* a table holds the rows of one load of its file, however many times the
\* load has run: the tables the manual runner has copied, the tables of a
\* finished load_data_to_postgres, and raw.taxpayers after load_to_database
C12_LoadLeavesRowsOfOneLoad ==
    /\ \A t \in runner.copied : db[t] = csv[t][1]
    /\ pc["load_data_to_postgres"] = "done" =>
           \A i \in 1..Len(Tables) : db[Tables[i]] = csv[Tables[i]][1]
    /\ pc["load_to_database"] = "done" => db.taxpayers = c_taxpayers


----------------------------------------------------------------------------
(* Claims about a failed bulk load *)

\* the iteration of load_data_to_postgres that raised had cleared its table
ClearedThenRaised ==
    /\ pc["load_data_to_postgres"] = "raised"
    /\ pending # << >>
    /\ pending[1].written # << >>

\* the tables of the iterations before the one that raised hold the rows of
\* their files
EarlierTablesLoaded ==
    pc["load_data_to_postgres"] = "raised" =>
        \A i \in 1..(ltable - 1) : db[Tables[i]] = csv[Tables[i]][1]

\* C13 (as the code has it): when an iteration of load_data_to_postgres
\* raises after it has cleared its table, the TRUNCATE and the inserts of
\* that iteration are never committed and the table keeps the rows it had
\* before; the tables loaded and committed earlier in the same step keep
\* their new contents; when update_forecast_tables raises after its
\* TRUNCATE, which is committed on its own, analytics.revenue_forecasts is
\* left empty
C13_FailedLoadKeepsCommittedRows ==
    /\ ClearedThenRaised => db[pending[1].table] = pending[1].old
    /\ EarlierTablesLoaded
    /\ forecast.pc = "raised" => forecast.table = << >>

\* a try of load_data_to_postgres in the second run has raised on a later
\* table that held other rows than its file, after clearing it
C13_Witness ==
    /\ ClearedThenRaised
    /\ ltable >= 2
    /\ loads.run = 2
    /\ pending[1].old # << >>
    /\ pending[1].old # csv[Tables[ltable]][1]
    /\ pending[1].old # pending[1].written[1]

\* C13 (as the specification has it): when a bulk-load step fails after it
\* has cleared a destination table, that table is left truncated, holding
\* at most the rows inserted before the failure, and the prior contents are
\* not restored; the tables loaded earlier keep their new contents
C13_FailedLoadLeavesTableTruncated ==
    /\ ClearedThenRaised =>
           \/ db[pending[1].table] = << >>
           \/ db[pending[1].table] = pending[1].written[1]
    /\ EarlierTablesLoaded
    /\ forecast.pc = "raised" => forecast.table = << >>


----------------------------------------------------------------------------
(* Claims about the data quality check *)

\* the contents of raw.taxpayers the check may meet: up to two rows, keys
\* present or missing
QualityTables ==
    LET QualityRows == [taxpayer_id : {NullId, 1, 2}, tin : {<< >>} \cup TinDraws]
    IN  {<< >>} \cup {<<r>> : r \in QualityRows}
                \cup {<<r, q>> : r \in QualityRows, q \in QualityRows}

\* the rows of raw.taxpayers that violate the rules: a missing taxpayer_id,
\* a missing tin, or a tin another row has too
OffendingRows(rows) ==
    {i \in DOMAIN rows :
        \/ rows[i].taxpayer_id = NullId
        \/ rows[i].tin = << >>
        \/ Cardinality({j \in DOMAIN rows : rows[j].tin = rows[i].tin}) > 1}

DownstreamOfQuality == {"run_dbt_models", "test_dbt_models", "calculate_metrics"}

\* C14: check_data_quality raises if and only if raw.taxpayers has a row
\* with a NULL taxpayer_id or a NULL tin, or two rows sharing a tin; it
\* leaves the offending rows in the tables as they were loaded; and when it
\* has failed, dbt run, dbt test and calculate_metrics are never executed in
\* that run
C14_QualityCheckRaisesAndStops ==
    /\ \A rows \in QualityTables : QualityCheckRaises(rows) <=> OffendingRows(rows) # {}
    /\ quality # "none" => (quality = "failed" <=> OffendingRows(db.taxpayers) # {})
    /\ quality = "failed" => \A i \in DOMAIN Tables : db[Tables[i]] = csv[Tables[i]][1]
    /\ quality = "failed" =>
           \A t \in DownstreamOfQuality :
               task_tries[t] = 0 /\ task_state[t] \in {"none", "upstream_failed"}

\* the check has found the two loaded taxpayers sharing a TIN, its task
\* has failed after its retry, and calculate_metrics will not start
C14_Witness ==
    /\ quality = "failed"
    /\ Len(db.taxpayers) = 2
    /\ db.taxpayers[1].tin = db.taxpayers[2].tin
    /\ task_state["data_quality_checks"] = "failed"
    /\ task_tries["data_quality_checks"] = 2
    /\ task_state["calculate_metrics"] = "upstream_failed"


----------------------------------------------------------------------------
(* Claims about the fraud alerts *)

\* C16: over any sequence of pipeline operations the statuses an alert row
\* of analytics.fraud_alerts has had follow the order Open, Under
\* Investigation, Closed: no operation moves an alert to an earlier status,
\* no Closed alert is reopened, and a concern raised again is a new row
C16_AlertStatusOnlyAdvances ==
    /\ Len(alert_history) = Len(db.fraud_alerts)
    /\ \A i \in DOMAIN alert_history :
          LET h == alert_history[i]
          IN  /\ h[Len(h)] = db.fraud_alerts[i].status
              /\ \A k \in 1..(Len(h) - 1) : StatusRank(h[k]) < StatusRank(h[k + 1])

\* an alert of a taxpayer has gone from Open to Closed, and a later row
\* raises the concern about the same taxpayer again
C16_Witness ==
    \E i, j \in DOMAIN alert_history :
        /\ i < j
        /\ alert_history[i] = << "Open", "Closed" >>
        /\ alert_history[j] = << "Open" >>
        /\ db.fraud_alerts[i].taxpayer_id = db.fraud_alerts[j].taxpayer_id

----------------------------------------------------------------------------
(* Claims about the dashboard *)

\* C15: every dashboard metric query that fails leaves the metric at its
\* default 0 and shows a visible inline warning: no failure of the queries
\* for today's collections, active alerts, monthly revenue, compliance rate
\* and active taxpayers is swallowed without a warning
C15_FailedQueryShowsDefaultAndWarning ==
    \A b \in dashboard.raised :
        /\ \A m \in HandlerDefaults(b) : dashboard.value[m] = 0
        /\ \E i \in DOMAIN dashboard.errors : dashboard.errors[i] = b

----------------------------------------------------------------------------
(* Claims about the fraud patterns *)

\* the series of eight quarters that is constant but for a drop of 40% in
\* period 5
IsDropSeries(payments_df) ==
    /\ Len(payments_df) = 8
    /\ \A q \in 1..8 :
          \/ q # 5 /\ payments_df[q].amount = payments_df[1].amount
          \/ q = 5 /\ payments_df[q].amount = (payments_df[1].amount \div 10) * 6

\* the alerts of the Sudden Revenue Drop rule
IsRevenueDrop(alert) == alert.alert_type = "Sudden Revenue Drop"
RevenueDropAlerts == SelectSeq(c_fraud_alerts, IsRevenueDrop)

----------------------------------------------------------------------------
(* Claims about the payments *)

\* C20: every payment either generator creates with status 'Completed' has
\* an amount > 0, and generate_payments creates no payment for a return
\* whose liability is zero or negative, such as a VAT return whose input VAT
\* exceeds its output VAT
C20_CompletedPaymentsArePositive ==
    /\ \A i \in DOMAIN payments :
          payments[i].status = "Completed" => payments[i].amount > 0
    /\ \A i \in DOMAIN c_payments :
          c_payments[i].status = "Completed" => c_payments[i].amount > 0
    /\ \A k \in DOMAIN paye_returns :
          paye_returns[k].net_payment <= 0 =>
              \A i \in DOMAIN payments :
                  payments[i].reference_number # paye_returns[k].return_id
    /\ \A k \in DOMAIN vat_returns :
          vat_returns[k].net_vat_payable <= 0 =>
              \A i \in DOMAIN payments :
                  payments[i].reference_number # vat_returns[k].return_id

\* generate_payments has passed a filed VAT return with a negative net VAT
\* and has created a payment for another return
C20_Witness ==
    /\ gpc = "done"
    /\ \E k \in DOMAIN vat_returns :
          vat_returns[k].status = "Filed" /\ vat_returns[k].net_vat_payable < 0
    /\ \E i \in DOMAIN payments : payments[i].tax_type = "VAT"

----------------------------------------------------------------------------
(* Claims about the scoring step *)

\* the rows the scoring runs have written
ScoredRows == UNION {{run[r].scores[i] : i \in DOMAIN run[r].scores} : r \in Runs}

\* C18: the four-band bucketing of the scoring step, with breakpoints 0.3,
\* 0.6 and 0.8, assigns the predicted probabilities 0.1, 0.4, 0.7 and 0.9 to
\* the bands Low, Medium, High and Critical
C18_BandsOfFourProbabilities ==
    \A row \in ScoredRows :
        /\ row.fraud_probability = 100 => row.fraud_risk_category = "Low"
        /\ row.fraud_probability = 400 => row.fraud_risk_category = "Medium"
        /\ row.fraud_probability = 700 => row.fraud_risk_category = "High"
        /\ row.fraud_probability = 900 => row.fraud_risk_category = "Critical"

\* two runs have scored the four probabilities
C18_Witness ==
    /\ fraud_scores # Absent
    /\ {row.fraud_probability : row \in ScoredRows} = BandProbabilityDraws
    /\ {row.fraud_risk_category : row \in ScoredRows} = {"Low", "Medium", "High", "Critical"}

----------------------------------------------------------------------------
(* Claims about the returns *)

\* the periods of the while loops: the months and the quarters from
\* start_date that begin no later than end_date
PayePeriods == {d \in start_date..end_date : (d - start_date) % MonthDays = 0}
VatPeriods == {d \in start_date..end_date : (d - start_date) % (3 * MonthDays) = 0}

\* generate_paye_returns, generate_vat_returns have returned
PayeReturnsGenerated == gpc \in {"vat_select", "vat", "pay_paye", "pay_vat", "done", "returned", "saved"}
VatReturnsGenerated == gpc \in {"pay_paye", "pay_vat", "done", "returned", "saved"}

\* the taxpayer of a return
TaxpayerOf(r) == taxpayers[CHOOSE i \in DOMAIN taxpayers : taxpayers[i].taxpayer_id = r.taxpayer_id]

\* the returns of a frame for taxpayer t and the period that begins at d
ReturnsFor(returns, t, d, Period(_)) ==
    {k \in DOMAIN returns :
        /\ returns[k].taxpayer_id = t.taxpayer_id
        /\ returns[k].period_year = PeriodYear(d)
        /\ Period(returns[k]) = Period([period_month |-> PeriodMonth(d), period_quarter |-> Quarter(d)])}

MonthOf(r) == r.period_month
QuarterOfReturn(r) == r.period_quarter

\* the returns are for eligible taxpayers only, once per period, with
\* distinct return_id values
ReturnsAreEligibleAndUnique ==
    /\ \A k \in DOMAIN paye_returns :
          TaxpayerOf(paye_returns[k]).taxpayer_type \in {"Corporate", "Partnership"}
    /\ \A k \in DOMAIN vat_returns :
          /\ TaxpayerOf(vat_returns[k]).annual_turnover # << >>
          /\ TaxpayerOf(vat_returns[k]).annual_turnover[1] > 1000000
    /\ \A i \in DOMAIN taxpayers : \A d \in PayePeriods :
          LET t == taxpayers[i]
              n == Cardinality(ReturnsFor(paye_returns, t, d, MonthOf))
          IN  /\ n <= 1
              /\ (/\ PayeReturnsGenerated
                  /\ t.taxpayer_type \in {"Corporate", "Partnership"}
                  /\ t.taxpayer_id \notin fraud_taxpayers) => n = 1
    /\ \A i \in DOMAIN taxpayers : \A d \in VatPeriods :
          LET t == taxpayers[i]
              n == Cardinality(ReturnsFor(vat_returns, t, d, QuarterOfReturn))
          IN  /\ n <= 1
              /\ (/\ VatReturnsGenerated
                  /\ t.annual_turnover # << >>
                  /\ t.annual_turnover[1] > 1000000
                  /\ t.taxpayer_id \notin fraud_taxpayers) => n = 1
    /\ \A k, l \in DOMAIN paye_returns :
          paye_returns[k].return_id = paye_returns[l].return_id => k = l
    /\ \A k, l \in DOMAIN vat_returns :
          vat_returns[k].return_id = vat_returns[l].return_id => k = l

\* C19: returns are generated only for eligible taxpayers and once per
\* period: PAYE returns only for Corporate and Partnership taxpayers, VAT
\* returns only for taxpayers with annual_turnover > 1,000,000 and none for
\* a taxpayer without a turnover, such as an Individual, for whom generation
\* still completes; an eligible taxpayer that is not flagged has exactly one
\* return per month (PAYE) or quarter (VAT), a flagged one at most one, and
\* all return_id values are distinct
C19_ReturnsOnlyForEligibleOncePerPeriod ==
    /\ ReturnsAreEligibleAndUnique
    /\ (\E i \in DOMAIN taxpayers : taxpayers[i].taxpayer_type = "Individual") =>
           gpc # "failed"

----------------------------------------------------------------------------
(* Claims about the revenue-drop rule on series with one payment a quarter *)

\* the quarters of the series the rule has raised an alert for
FlaggedQuarters ==
    {i \in DOMAIN c_payments :
        \E k \in DOMAIN RevenueDropAlerts :
            RevenueDropAlerts[k].alert_date =
                QuarterEnd(QuarterOf(c_payments[i].payment_date)) + 30}

\* the revenue of quarters i - back .. i - back + 3 of the series
FourQuarters(i, back) ==
    c_payments[i - back].amount + c_payments[i - back + 1].amount
        + c_payments[i - back + 2].amount + c_payments[i - back + 3].amount

\* quarter i is more than 30% below the average of the four quarters before it
BelowPrecedingAverage(i) == i >= 5 /\ 40 * c_payments[i].amount < 7 * FourQuarters(i, 4)

\* quarter i is more than 30% below the average of the four quarters that
\* end with it
BelowTrailingAverage(i) == i >= 4 /\ 40 * c_payments[i].amount < 7 * FourQuarters(i, 3)

\* C21: for a taxpayer with more than 4 quarterly totals the rule
\* flags every quarter from the fifth on that is more than 30% below the
\* average of the four quarters that precede it, no quarter within 30% of
\* that average, and no quarter with fewer than four earlier quarters
C21_FlagsDropsBelowPrecedingAverage ==
    cpc = "patterns" /\ Len(c_payments) > 4 =>
        FlaggedQuarters = {i \in DOMAIN c_payments : BelowPrecedingAverage(i)}

\* what the rule does: for a taxpayer with more than 4 quarterly totals it
\* flags exactly the quarters, from the fourth on, that are more than 30%
\* below the average of the four quarters ending with the quarter itself,
\* one alert each; a taxpayer with 4 totals or fewer gets no alert
FlagsDropsBelowTrailingAverage ==
    cpc = "patterns" =>
        /\ FlaggedQuarters = IF Len(c_payments) > 4
                             THEN {i \in DOMAIN c_payments : BelowTrailingAverage(i)}
                             ELSE {}
        /\ Len(RevenueDropAlerts) = Cardinality(FlaggedQuarters)

\* the fourth quarter is flagged, and a later quarter more than 30% below
\* the four quarters before it is not
DropMissedAndFourthFlagged ==
    /\ cpc = "patterns"
    /\ Len(c_payments) > 4
    /\ 4 \in FlaggedQuarters
    /\ \E i \in DOMAIN c_payments : BelowPrecedingAverage(i) /\ i \notin FlaggedQuarters

----------------------------------------------------------------------------
(* Claims about the channel-diversity rule *)

\* the distinct channels of the payments of a taxpayer
ChannelsOf(taxpayer_id) ==
    {c_payments[i].payment_channel :
        i \in {j \in DOMAIN c_payments : c_payments[j].taxpayer_id = taxpayer_id}}

\* the alerts of the rule for a taxpayer
ChannelAlertsOf(taxpayer_id) ==
    {k \in DOMAIN c_fraud_alerts :
        /\ c_fraud_alerts[k].alert_type = "Payment Channel Anomaly"
        /\ c_fraud_alerts[k].taxpayer_id = taxpayer_id}

\* one alert for each taxpayer with more than 3 channels and none for another
OneAlertPerDiverseTaxpayer ==
    cpc = "patterns" =>
        \A i \in DOMAIN c_taxpayers :
            Cardinality(ChannelAlertsOf(c_taxpayers[i].taxpayer_id)) =
                IF Cardinality(ChannelsOf(c_taxpayers[i].taxpayer_id)) > 3 THEN 1 ELSE 0

\* C22: the channel-diversity rule emits exactly one 'Payment Channel
\* Anomaly' alert for each taxpayer whose payments use more than 3 distinct
\* channels and none for any other taxpayer; the risk score grows with the
\* channel count, a taxpayer with more channels getting a strictly higher
\* score, and stays within [0, 1]
C22_ChannelScoreGrowsWithCount ==
    /\ OneAlertPerDiverseTaxpayer
    /\ \A k, l \in DOMAIN c_fraud_alerts :
          LET a == c_fraud_alerts[k]
              b == c_fraud_alerts[l]
          IN  (/\ a.alert_type = "Payment Channel Anomaly"
               /\ b.alert_type = "Payment Channel Anomaly"
               /\ Cardinality(ChannelsOf(a.taxpayer_id)) > Cardinality(ChannelsOf(b.taxpayer_id)))
                  => a.risk_score > b.risk_score
    /\ \A k \in DOMAIN c_fraud_alerts :
          c_fraud_alerts[k].risk_score >= 0 /\ c_fraud_alerts[k].risk_score <= 1000

----------------------------------------------------------------------------
(* Claims about the model selection of train_fraud_models *)

\* the first of the models with the greatest ROC-AUC
FirstMaximal(roc) ==
    LET k == CHOOSE k \in DOMAIN roc :
                 /\ \A l \in DOMAIN roc : roc[l] <= roc[k]
                 /\ \A l \in DOMAIN roc : l < k => roc[l] < roc[k]
    IN  << ModelNames[k] >>

\* the three models of a run have been evaluated
Evaluated(r) == run[r].task = "train" /\ run[r].pc \in {"dump", "report"}

\* C23: once the three candidates are evaluated, train_fraud_models has one
\* of them to persist, the first of those with the greatest validation
\* ROC-AUC, whatever the three scores in [0, 1] are, all of them 0 included
C23_BestCandidateIsSelected ==
    \A r \in Runs :
        Evaluated(r) => run[r].best_model = FirstMaximal(run[r].results)

\* with a score above 0 among the three the first maximal candidate is
\* selected and the model file is written by the task instance
SelectsFirstMaximalAboveZero ==
    \A r \in Runs :
        (Evaluated(r) /\ \E k \in DOMAIN ModelNames : run[r].results[k] > 0)
            => run[r].best_model = FirstMaximal(run[r].results)

\* every candidate scored 0: no candidate is selected and no file is written
\* by this task instance
NothingSelectedAtZero ==
    \E r \in Runs :
        /\ Evaluated(r)
        /\ \A k \in DOMAIN ModelNames : run[r].results[k] = 0
        /\ run[r].best_model = << >>
        /\ artifacts["model"] = Absent

----------------------------------------------------------------------------
(* Claims about repeated calls of generate_taxpayers *)

\* the rows of the frame generate_taxpayers has returned
TaxpayerIds == {taxpayers[i].taxpayer_id : i \in DOMAIN taxpayers}

\* generate_taxpayers has returned and the frame is that of its last call
TaxpayersReturned == gpc \notin {"taxpayers", "failed"}

\* C24: whatever calls of generate_taxpayers / generate_all_data the
\* generator has behind it, the frame a call of generate_taxpayers returns
\* has exactly num_taxpayers rows with pairwise distinct taxpayer_id, and
\* the fraud set holds only ids of returned taxpayers
C24_EveryCallReturnsNumTaxpayersDistinctRows ==
    TaxpayersReturned =>
        /\ Len(taxpayers) = NumTaxpayers
        /\ \A i, j \in DOMAIN taxpayers :
              taxpayers[i].taxpayer_id = taxpayers[j].taxpayer_id => i = j
        /\ fraud_taxpayers \subseteq TaxpayerIds

\* the first call on a generator returns num_taxpayers rows of distinct ids,
\* and the fraud set holds ids of returned rows after every call
FirstCallReturnsDistinctRows ==
    /\ (TaxpayersReturned /\ Len(taxpayers) <= NumTaxpayers) =>
           /\ Len(taxpayers) = NumTaxpayers
           /\ Cardinality(TaxpayerIds) = NumTaxpayers
    /\ TaxpayersReturned => fraud_taxpayers \subseteq TaxpayerIds

\* the second call has returned the rows of both calls, every id twice, with
\* an id in the fraud set whose row of the second call is not a fraud case
SecondCallReturnsBothCalls ==
    /\ TaxpayersReturned
    /\ Len(taxpayers) = 2 * NumTaxpayers
    /\ Cardinality(TaxpayerIds) = NumTaxpayers
    /\ \E i \in DOMAIN taxpayers :
          /\ i > NumTaxpayers
          /\ taxpayers[i].taxpayer_id \in fraud_taxpayers
          /\ taxpayers[i].risk_category = "Low"

----------------------------------------------------------------------------
(* Claims about ComprehensiveDataGenerator.load_to_database *)

\* raw.taxpayers, raw.payments and analytics.fraud_alerts of the tables d
LoadedTables(d) == [t \in {"taxpayers", "payments", "fraud_alerts"} |-> d[t]]

\* C25: load_to_database is all-or-nothing. When the truncation, one of the
\* three batch inserts or the commit fails, the transaction is rolled back,
\* raw.taxpayers, raw.payments and analytics.fraud_alerts keep the contents
\* they had, and the exception leaves the function; when the try block
\* succeeds the three tables hold exactly the new data; on both paths the
\* connection is closed once the function is left
C25_LoadIsAllOrNothing ==
    /\ [][(pc["load_to_database"] = "try" /\ pc'["load_to_database"] = "finally_raise")
             => /\ LoadedTables(db') = LoadedTables(db)
                /\ conn'["load_to_database"].txn = "rolled_back"]_vars
    /\ [][(pc["load_to_database"] = "try" /\ pc'["load_to_database"] = "finally")
             => /\ LoadedTables(db') = Dataframes
                /\ conn'["load_to_database"].txn = "committed"]_vars
    /\ [][pc["load_to_database"] = "finally_raise"
             => /\ pc'["load_to_database"] \in {"finally_raise", "raised"}
                /\ LoadedTables(db') = LoadedTables(db)]_vars
    /\ [](pc["load_to_database"] \in {"done", "raised"}
             => conn["load_to_database"].state = "closed")
    /\ [](pc["load_to_database"] = "raised"
             => conn["load_to_database"].txn = "rolled_back")

\* a load on tables with rows of an earlier load has failed: the exception
\* has left the function, the connection is closed and the rows are there
C25_Witness ==
    /\ pc["load_to_database"] = "raised"
    /\ conn["load_to_database"] = [state |-> "closed", txn |-> "rolled_back"]
    /\ db.taxpayers # << >>
    /\ LoadedTables(db) # Dataframes

----------------------------------------------------------------------------
(* Claims about the alert step of ml_fraud_detection *)

\* a try of generate_fraud_alerts of run r ends with an exception
AlertStepFails(r) ==
    /\ run[r].task = "alerts"
    /\ run'[r].task \in {"alerts", "failed"}
    /\ run'[r].try_number = run[r].try_number + 1

\* C26: generate_fraud_alerts replaces the open alerts atomically: when the
\* step fails while it inserts the new alerts or fetches their context, the
\* alerts that were Open before the step are still Open
C26_FailedAlertStepKeepsOpenAlerts ==
    [][\A r \in Runs :
          AlertStepFails(r) =>
              \A i \in DOMAIN db.fraud_alerts :
                  db.fraud_alerts[i].status = "Open"
                      => /\ i \in DOMAIN db'.fraud_alerts
                         /\ db'.fraud_alerts[i].status = "Open"]_vars

\* the step that succeeds closes the alerts that were open and leaves the
\* new alerts as the only open ones
SucceededAlertStepReplacesOpenAlerts ==
    [][\A r \in Runs :
          (run[r].task = "alerts" /\ run'[r].task = "success") =>
              /\ Len(db'.fraud_alerts) >= Len(db.fraud_alerts)
              /\ \A i \in DOMAIN db'.fraud_alerts :
                    db'.fraud_alerts[i].status = "Open"
                        => /\ i > Len(db.fraud_alerts)
                           /\ db'.fraud_alerts[i].alert_type = "ML-Detected High Fraud Risk"]_vars

\* the alert step has failed for good: alerts of the load are closed and no
\* alert of the model is there
OpenAlertsClosedAndNoneInserted ==
    /\ run["run_1"].task = "failed"
    /\ db.fraud_alerts # << >>
    /\ \A i \in DOMAIN db.fraud_alerts :
          /\ db.fraud_alerts[i].status = "Closed"
          /\ db.fraud_alerts[i].alert_type # "ML-Detected High Fraud Risk"
    /\ \E i \in DOMAIN alert_history : alert_history[i] = << "Open", "Closed" >>

----------------------------------------------------------------------------
(* Claims about readers of the store during load_data_to_postgres *)

\* the taxpayers of the tables d that generate_taxpayers drew as fraud cases
FraudCaseIds(d) ==
    {d.taxpayers[i].taxpayer_id :
        i \in {j \in DOMAIN d.taxpayers :
                  d.taxpayers[j].compliance_score \in FraudComplianceDraws}}

\* the taxpayers the rows of table t of d refer to
ReferredIds(d, t) == {d[t][i].taxpayer_id : i \in DOMAIN d[t]}

\* the tables d are those of one generation run: the alerts are those of
\* the fraud cases of raw.taxpayers, one for each, and the returns and
\* payments are those of taxpayers of raw.taxpayers
OneGeneration(d) ==
    /\ ReferredIds(d, "fraud_alerts") = FraudCaseIds(d)
    /\ \A t \in {"paye_returns", "vat_returns", "payments"} :
          ReferredIds(d, t) \subseteq ReferredIds(d, "taxpayers")
    /\ (d.payments # << >>) => (d.paye_returns # << >> \/ d.vat_returns # << >>)

\* pd.read_sql of execute_query is the next statement of the dashboard
ReaderAtQuery == pc["execute_query"] = "try"

\* C27: while load_data_to_postgres runs, a reader never observes a mixed
\* snapshot: whenever a query can read the store, raw.taxpayers, the return
\* tables, raw.payments and analytics.fraud_alerts come from one generation
\* run, and no visible alert, return or payment refers to a taxpayer
\* population other than the visible one
C27_ReaderSeesOneGeneration ==
    ReaderAtQuery => OneGeneration(db)

\* between the loads the store is that of one generation run
LoadedStoreIsOneGeneration ==
    pc["load_data_to_postgres"] = "done" => OneGeneration(db)

\* a query is about to read while the second run's load is under way: the
\* taxpayers of the second run are committed, none of them a fraud case,
\* and the alert of the first run is still there
ReaderSeesStaleAlert ==
    /\ ReaderAtQuery
    /\ pc["load_data_to_postgres"] = "open"
    /\ loads.run = 2
    /\ db.taxpayers = csv.taxpayers[1]
    /\ FraudCaseIds(db) = {}
    /\ db.fraud_alerts # << >>

----------------------------------------------------------------------------
(* Claims about the training label after a scoring round *)

\* the rows of fraud_scores.csv: the probabilities of the last scoring round
LastScores == IF fraud_scores = Absent THEN << >> ELSE fraud_scores[3]

\* the label the feature query gives the taxpayer of a row of fraud_scores.csv
LabelOf(row) ==
    LET i == CHOOSE i \in DOMAIN db.taxpayers :
                 db.taxpayers[i].taxpayer_id = row.taxpayer_id
    IN  is_fraud(db.taxpayers[i])

\* prepare_fraud_features of the second run has read the store that the
\* scoring of the first run has left
SecondRunPrepared ==
    /\ run["run_1"].task = "success"
    /\ run["run_2"].task = "train"

\* C28: the training label is monotone in the scoring round before: with
\* risk_category and compliance_score written back by score_all_taxpayers,
\* a taxpayer scored higher than one that the next prepare_fraud_features
\* labels is_fraud = 1 is labelled is_fraud = 1 as well
C28_LabelMonotoneInScore ==
    SecondRunPrepared =>
        \A a, b \in DOMAIN LastScores :
            (/\ LastScores[a].fraud_probability > LastScores[b].fraud_probability
             /\ LabelOf(LastScores[b]) = 1)
                => LabelOf(LastScores[a]) = 1

\* the label is that of the band (0.6, 0.8] alone
LabelIsTheHighBand ==
    SecondRunPrepared =>
        \A a \in DOMAIN LastScores :
            LabelOf(LastScores[a]) = 1 <=> LastScores[a].fraud_risk_category = "High"

\* a taxpayer scored 0.9 is labelled 0 and one scored 0.7 is labelled 1
CriticalUnlabelledHighLabelled ==
    /\ SecondRunPrepared
    /\ \E a, b \in DOMAIN LastScores :
          /\ LastScores[a].fraud_probability = 900
          /\ LastScores[b].fraud_probability = 700
          /\ LabelOf(LastScores[a]) = 0
          /\ LabelOf(LastScores[b]) = 1

----------------------------------------------------------------------------
(* Claims about the bands of the scoring step *)

\* the order of the labels of pd.cut
BandRank(band) ==
    CASE band = "Low" -> 1
      [] band = "Medium" -> 2
      [] band = "High" -> 3
      [] band = "Critical" -> 4
      [] OTHER -> 0

\* the rows of S have one of the four bands each, and a larger probability
\* never has a lower band
TotalAndMonotone(S) ==
    /\ \A row \in S : row.fraud_risk_category \in {"Low", "Medium", "High", "Critical"}
    /\ \A a, b \in S :
          a.fraud_probability >= b.fraud_probability
              => BandRank(a.fraud_risk_category) >= BandRank(b.fraud_risk_category)

\* C29: the band assignment of score_all_taxpayers is total and monotone on
\* [0, 1]: every probability from 0 to 1, the endpoints and the breakpoints
\* 0.3, 0.6 and 0.8 included, gets exactly one of Low, Medium, High and
\* Critical, never a missing value, and a larger one never a lower band
C29_BandsTotalAndMonotone ==
    TotalAndMonotone(ScoredRows)

\* on (0, 1] the assignment is total and monotone, each breakpoint in the
\* band below it
BandsTotalAndMonotoneAboveZero ==
    /\ TotalAndMonotone({row \in ScoredRows : row.fraud_probability > 0})
    /\ \A row \in ScoredRows :
          /\ row.fraud_probability \in {1, 300} => row.fraud_risk_category = "Low"
          /\ row.fraud_probability \in {301, 600} => row.fraud_risk_category = "Medium"
          /\ row.fraud_probability \in {601, 800} => row.fraud_risk_category = "High"
          /\ row.fraud_probability \in {801, 1000} => row.fraud_risk_category = "Critical"

\* a taxpayer scored 0 is written to fraud_scores.csv and to raw.taxpayers
\* with a missing band
ZeroHasNoBand ==
    /\ fraud_scores # Absent
    /\ \E i \in DOMAIN fraud_scores[3] :
          /\ fraud_scores[3][i].fraud_probability = 0
          /\ fraud_scores[3][i].fraud_risk_category = "NaN"
    /\ \E i \in DOMAIN db.taxpayers : db.taxpayers[i].risk_category = "NaN"

----------------------------------------------------------------------------
(* Claims about the payment identifiers *)

\* no two rows of a payment frame share a payment_id
PaymentIdsUnique(rows) ==
    \A i, j \in DOMAIN rows : rows[i].payment_id = rows[j].payment_id => i = j

\* C30: in every payment set generate_payments or generate_payment_patterns
\* produces no two payments share a payment_id, payments of one payment
\* date included
C30_PaymentIdsUnique ==
    /\ PaymentIdsUnique(payments)
    /\ PaymentIdsUnique(c_payments)

\* payments of different taxpayers with one date and one number, in the
\* frame of generate_payments and in that of generate_payment_patterns
PaymentIdSharedOnOneDate ==
    \/ /\ gpc = "done"
       /\ \E i, j \in DOMAIN payments :
             /\ payments[i].taxpayer_id # payments[j].taxpayer_id
             /\ payments[i].payment_id = payments[j].payment_id
    \/ /\ cpc = "payments"
       /\ \E i, j \in DOMAIN c_payments :
             /\ c_payments[i].taxpayer_id # c_payments[j].taxpayer_id
             /\ c_payments[i].payment_id = c_payments[j].payment_id

\* payment_ids differ where the dates or the numbers drawn differ
PaymentIdIsDateAndNumber ==
    /\ \A i, j \in DOMAIN payments :
          payments[i].payment_id = payments[j].payment_id
              => payments[i].payment_date = payments[j].payment_date
    /\ \A i, j \in DOMAIN c_payments :
          c_payments[i].payment_id = c_payments[j].payment_id
              => c_payments[i].period_month = c_payments[j].period_month

====
